---- MODULE Spec2Model ----
(***************************************************************************)
(* Model of the patho-record barcode application (src/app.py,              *)
(* src/models.py, src/validators.py): the item-return lifecycle, the       *)
(* history query, the user management routes and the audit trail.          *)
(* call is the validator call under examination, requests the update_item  *)
(* requests that have read their record and not yet committed, backups the *)
(* attempts of the daily backup.                                           *)
(*                                                                         *)
(* Strings are tuples of one-character strings.  Python's None is the      *)
(* value None for strings and NULL for timestamps.  A timestamp is a       *)
(* number of clock ticks; DayLen ticks make one UTC day.                   *)
(***************************************************************************)
EXTENDS Integers, Sequences, FiniteSets, TLC

VARIABLES users, items, audit, settings, session, now, call, requests, backups

vars == <<users, items, audit, settings, session, now, call, requests, backups>>

\* ------------------------------------------------------------------------
\* Bounds of the model
\* ------------------------------------------------------------------------
MaxItems == 2
MaxUsers == 2
MaxAudit == 3
MaxUserAudit == 2
MaxTime == 1
MaxHistTime == 2
MaxLen == 3
DayLen == 2

\* ------------------------------------------------------------------------
\* Python values
\* ------------------------------------------------------------------------
NULL == -1
None == <<"None">>

\* JSON values of a request body: t is the JSON type, i the number (a JSON
\* boolean is the Python bool, an int subclass: True is 1), s the string.
JNull == [t |-> "null", i |-> 0, s |-> <<>>]
JInt(n) == [t |-> "int", i |-> n, s |-> <<>>]
JBool(b) == [t |-> "bool", i |-> IF b THEN 1 ELSE 0, s |-> <<>>]
JStr(str) == [t |-> "str", i |-> 0, s |-> str]

\* a JSON number with a fraction, the Python float: i counts tenths
JFloat(tenths) == [t |-> "float", i |-> tenths, s |-> <<>>]

\* dict.get(key, default)
Get(data, key, default) == IF key \in DOMAIN data THEN data[key] ELSE default

\* bool(value)
PyBool(v) ==
    CASE v.t = "null" -> FALSE
      [] v.t = "str" -> v.s # <<>>
      [] OTHER -> v.i # 0

\* truth value of an optional string: None and '' are false
Truthy(str) == str # None /\ str # <<>>

\* characters: "^@" stands for NUL (0x00) and "^?" for DEL (0x7f)
WhiteSpace == {" ", "\n", "\t", "\r"}
ControlChars == {"^@", "\n", "\t", "\r", "^?"}
NotesKept == {"\n", "\t", "\r"}
Digits == <<"0", "1", "2", "3", "4", "5", "6", "7", "8", "9">>

RECURSIVE LStrip(_)
LStrip(str) ==
    IF str # <<>> /\ Head(str) \in WhiteSpace THEN LStrip(Tail(str)) ELSE str

RECURSIVE RStrip(_)
RStrip(str) ==
    IF str # <<>> /\ str[Len(str)] \in WhiteSpace
    THEN RStrip(SubSeq(str, 1, Len(str) - 1))
    ELSE str

\* str.strip()
Strip(str) == RStrip(LStrip(str))

\* re.sub(class, '', value)
ReSub(class, str) == SelectSeq(str, LAMBDA c : c \notin class)

DigitVal(c) == (CHOOSE k \in 1..10 : Digits[k] = c) - 1
IsDigit(c) == \E k \in 1..10 : Digits[k] = c

RECURSIVE ParseNat(_)
ParseNat(str) ==
    IF str = <<>> THEN 0
    ELSE 10 * ParseNat(SubSeq(str, 1, Len(str) - 1)) + DigitVal(str[Len(str)])

AllDigits(str) == str # <<>> /\ \A k \in 1..Len(str) : IsDigit(str[k])

\* int(value): ValueError / TypeError is err; a float loses its fraction
PyInt(v) ==
    CASE v.t \in {"int", "bool"} -> [err |-> FALSE, val |-> v.i]
      [] v.t = "float" ->
            [err |-> FALSE,
             val |-> IF v.i >= 0 THEN v.i \div 10 ELSE 0 - ((0 - v.i) \div 10)]
      [] v.t = "str" ->
            LET body == Strip(v.s) IN
            IF AllDigits(body) THEN [err |-> FALSE, val |-> ParseNat(body)]
            ELSE IF body # <<>> /\ Head(body) = "-" /\ AllDigits(Tail(body))
                 THEN [err |-> FALSE, val |-> 0 - ParseNat(Tail(body))]
                 ELSE [err |-> TRUE, val |-> 0]
      [] OTHER -> [err |-> TRUE, val |-> 0]

\* ------------------------------------------------------------------------
\* validators.py
\* ------------------------------------------------------------------------
LIMITS ==
    [barcode |-> 100, patient_id |-> 50, notes |-> 500, user_name |-> 50,
     password |-> 100, quantity_max |-> 9999, return_days_max |-> 365]

SanitizeCap == 10000

\* result of a validator: err is a raised ValidationError
Ok(v) == [err |-> FALSE, val |-> v]
\* message is what the text of the ValidationError reports: the kind of the
\* failure and the numbers the f-string puts into it
Err(message) == [err |-> TRUE, val |-> None, message |-> message]
ErrInt(message) == [err |-> TRUE, val |-> 0, message |-> message]

\* validate_string cutting a long value down to max_length
validate_string_truncating(value, max_length, required) ==
    IF value.t = "null"
    THEN (IF required THEN Err(<<"required">>) ELSE Ok(None))
    ELSE IF value.t # "str" THEN Err(<<"not a string">>)
    ELSE LET v == Strip(value.s) IN
         IF v = <<>> THEN (IF required THEN Err(<<"required">>) ELSE Ok(None))
         ELSE IF Len(v) > max_length THEN Ok(SubSeq(v, 1, max_length))
         ELSE Ok(v)

validate_string(value, max_length, required) ==
    IF value.t = "null"
    THEN (IF required THEN Err(<<"required">>) ELSE Ok(None))
    ELSE IF value.t # "str" THEN Err(<<"not a string">>)
    ELSE LET v == Strip(value.s) IN
         IF v = <<>> THEN (IF required THEN Err(<<"required">>) ELSE Ok(None))
         ELSE IF Len(v) > max_length
              THEN Err(<<"max_length", max_length, Len(v)>>)
         ELSE Ok(v)

validate_integer(value, min_val, max_val, default) ==
    IF value.t = "null" THEN [err |-> FALSE, val |-> default]
    ELSE LET p == PyInt(value) IN
         IF p.err THEN ErrInt(<<"not a number">>)
         ELSE IF p.val < min_val THEN ErrInt(<<"min_val", min_val>>)
         ELSE IF max_val # NULL /\ p.val > max_val
              THEN ErrInt(<<"max_val", max_val>>)
         ELSE [err |-> FALSE, val |-> p.val]

validate_barcode(value) ==
    LET r == validate_string(value, LIMITS.barcode, FALSE) IN
    IF ~r.err /\ Truthy(r.val) THEN Ok(ReSub(ControlChars, r.val)) ELSE r

validate_patient_id(value) ==
    LET r == validate_string(value, LIMITS.patient_id, FALSE) IN
    IF ~r.err /\ Truthy(r.val) THEN Ok(ReSub(ControlChars, r.val)) ELSE r

validate_notes(value) ==
    LET r == validate_string(value, LIMITS.notes, FALSE) IN
    IF ~r.err /\ Truthy(r.val)
    THEN Ok(ReSub(ControlChars \ NotesKept, r.val))
    ELSE r

validate_user_name(value, required) ==
    validate_string(value, LIMITS.user_name, required)

validate_password(value) ==
    validate_string(value, LIMITS.password, FALSE)

validate_quantity(value, default) ==
    validate_integer(value, 0, LIMITS.quantity_max, default)

\* validate_return_days with 0 days admitted
validate_return_days_zero(value) ==
    validate_integer(value, 0, LIMITS.return_days_max, 14)

validate_return_days(value) ==
    validate_integer(value, 1, LIMITS.return_days_max, 14)

sanitize_input(data) ==
    [k \in DOMAIN data |->
        IF data[k].t = "str"
        THEN JStr(SubSeq(data[k].s, 1,
                         IF Len(data[k].s) < SanitizeCap THEN Len(data[k].s)
                         ELSE SanitizeCap))
        ELSE data[k]]

\* str(n) for a natural number
RECURSIVE PyStr(_)
PyStr(n) ==
    IF n < 10 THEN <<Digits[n + 1]>>
    ELSE PyStr(n \div 10) \o <<Digits[(n % 10) + 1]>>

\* ------------------------------------------------------------------------
\* models.py
\* ------------------------------------------------------------------------
\* werkzeug's generate_password_hash / check_password_hash: a hash matches
\* exactly the password it was made from
generate_password_hash(password) == <<"#">> \o password
check_password_hash(hash, password) == hash = generate_password_hash(password)

\* User(name=..., is_admin=...) with the column defaults
User(name, is_admin, t) ==
    [name |-> name, password_hash |-> None, is_admin |-> is_admin,
     created_at |-> t, is_active |-> TRUE]

set_password(user, password) ==
    [user EXCEPT !.password_hash =
        IF Truthy(password) THEN generate_password_hash(password) ELSE None]

has_password(user) == user.password_hash # None

check_password(user, password) ==
    IF ~Truthy(user.password_hash) THEN TRUE
    ELSE check_password_hash(user.password_hash, password)

UserToDict(uid, user) ==
    [id |-> uid, name |-> user.name, is_admin |-> user.is_admin,
     has_password |-> has_password(user), created_at |-> user.created_at,
     is_active |-> user.is_active]

\* ItemLog(...) as scan() constructs it, with the column defaults
ItemLog(barcode, patient_id, quantity, scanned_by_id, expected_return_date, returned, block_quantity, slide_quantity, notes, t) ==
    [barcode |-> barcode, patient_id |-> patient_id, quantity |-> quantity,
     scanned_by_id |-> scanned_by_id, scanned_at |-> t,
     expected_return_date |-> expected_return_date,
     preliminary_report |-> FALSE, preliminary_report_at |-> NULL,
     returned |-> returned, returned_at |-> NULL,
     block_quantity |-> block_quantity, block_returned_at |-> NULL,
     slide_quantity |-> slide_quantity, slide_returned_at |-> NULL,
     completed |-> FALSE, completed_at |-> NULL,
     notes |-> notes, deleted_at |-> NULL]

block_returned(item) == item.block_quantity > 0
slide_returned(item) == item.slide_quantity > 0
all_returned(item) == item.completed

\* is_overdue without the test of returned
is_overdue_unreturned(item, t) ==
    IF item.deleted_at # NULL THEN FALSE
    ELSE IF item.expected_return_date = NULL THEN FALSE
    ELSE t > item.expected_return_date

is_overdue(item, t) ==
    IF item.returned \/ item.deleted_at # NULL THEN FALSE
    ELSE IF item.expected_return_date = NULL THEN FALSE
    ELSE t > item.expected_return_date

\* timedelta.days: whole days, rounded towards minus infinity
days_until_due(item, t) ==
    IF item.expected_return_date = NULL THEN NULL
    ELSE (item.expected_return_date - t) \div DayLen

ItemToDict(id, item, us, t) ==
    [id |-> id, barcode |-> item.barcode, patient_id |-> item.patient_id,
     quantity |-> item.quantity, scanned_by_id |-> item.scanned_by_id,
     scanned_by_name |-> us[item.scanned_by_id].name,
     scanned_at |-> item.scanned_at,
     expected_return_date |-> item.expected_return_date,
     preliminary_report |-> item.preliminary_report,
     preliminary_report_at |-> item.preliminary_report_at,
     returned |-> item.returned, returned_at |-> item.returned_at,
     block_quantity |-> item.block_quantity,
     block_returned |-> block_returned(item),
     block_returned_at |-> item.block_returned_at,
     slide_quantity |-> item.slide_quantity,
     slide_returned |-> slide_returned(item),
     slide_returned_at |-> item.slide_returned_at,
     completed |-> item.completed, completed_at |-> item.completed_at,
     all_returned |-> all_returned(item), notes |-> item.notes,
     deleted_at |-> item.deleted_at, is_overdue |-> is_overdue(item, t),
     days_until_due |-> days_until_due(item, t)]

\* json.dumps(value) if value else None: the text is the one-element tuple
\* holding the dictionary, None is the empty tuple
JsonNone == <<>>
json_dumps(d) == <<d>>

AuditLog(action, table_name, record_id, user_id, old_value, new_value, t) ==
    [action |-> action, table_name |-> table_name, record_id |-> record_id,
     user_id |-> user_id, timestamp |-> t,
     old_value |-> old_value, new_value |-> new_value]

\* AppSettings.get('return_days', default)
AppSettingsGet(st, key, default) == IF st[key] = None THEN default ELSE st[key]

\* ------------------------------------------------------------------------
\* app.py: utilities
\* ------------------------------------------------------------------------
DEFAULT_RETURN_DAYS == 14

\* get_current_user(): the id of the session's user, NULL when there is none
get_current_user == IF session # 0 THEN session ELSE NULL

\* create_audit_log: the audit table after the entry is added and committed
create_audit_log(action, table_name, record_id, old_value, new_value) ==
    Append(audit, AuditLog(action, table_name, record_id, get_current_user,
                           old_value, new_value, now))

\* the id a new row gets: SQLite's INTEGER PRIMARY KEY is max(rowid) + 1
NextId(ids) == IF ids = {} THEN 1 ELSE (CHOOSE m \in ids : \A k \in ids : k <= m) + 1

\* ------------------------------------------------------------------------
\* app.py: update_item, field by field
\* ------------------------------------------------------------------------
Step(err, item) == [err |-> err, item |-> item]

UpdQuantity(item, data) ==
    IF "quantity" \notin DOMAIN data THEN Step(FALSE, item)
    ELSE LET r == validate_quantity(data["quantity"], 1) IN
         IF r.err THEN Step(TRUE, item)
         ELSE Step(FALSE, [item EXCEPT !.quantity = r.val])

\* UpdReturned with the timestamp written on every active submission
UpdReturned_overwrite(item, data, t) ==
    IF "returned" \notin DOMAIN data THEN item
    ELSE LET new_returned == PyBool(data["returned"]) IN
         [item EXCEPT
            !.returned_at = IF new_returned THEN t ELSE NULL,
            !.returned = new_returned]

\* UpdReturned with the timestamp kept when the flag is withdrawn
UpdReturned_keep(item, data, t) ==
    IF "returned" \notin DOMAIN data THEN item
    ELSE LET new_returned == PyBool(data["returned"]) IN
         [item EXCEPT
            !.returned_at = IF new_returned /\ ~item.returned THEN t ELSE @,
            !.returned = new_returned]

UpdReturned(item, data, t) ==
    IF "returned" \notin DOMAIN data THEN item
    ELSE LET new_returned == PyBool(data["returned"]) IN
         [item EXCEPT
            !.returned_at = IF new_returned /\ ~item.returned THEN t
                            ELSE IF ~new_returned THEN NULL
                            ELSE @,
            !.returned = new_returned]

UpdBlockQuantity(item, data, t) ==
    IF "block_quantity" \notin DOMAIN data THEN Step(FALSE, item)
    ELSE LET r == validate_quantity(data["block_quantity"], 0) IN
         IF r.err THEN Step(TRUE, item)
         ELSE Step(FALSE, [item EXCEPT
                !.block_returned_at =
                    IF r.val > 0 /\ item.block_quantity = 0 THEN t
                    ELSE IF r.val = 0 THEN NULL
                    ELSE @,
                !.block_quantity = r.val])

UpdSlideQuantity(item, data, t) ==
    IF "slide_quantity" \notin DOMAIN data THEN Step(FALSE, item)
    ELSE LET r == validate_quantity(data["slide_quantity"], 0) IN
         IF r.err THEN Step(TRUE, item)
         ELSE Step(FALSE, [item EXCEPT
                !.slide_returned_at =
                    IF r.val > 0 /\ item.slide_quantity = 0 THEN t
                    ELSE IF r.val = 0 THEN NULL
                    ELSE @,
                !.slide_quantity = r.val])

UpdNotes(item, data) ==
    IF "notes" \notin DOMAIN data THEN Step(FALSE, item)
    ELSE LET r == validate_notes(data["notes"]) IN
         IF r.err THEN Step(TRUE, item)
         ELSE Step(FALSE, [item EXCEPT !.notes = r.val])

\* datetime.fromisoformat: the ISO text of tick n is "T" followed by str(n);
\* anything else raises (err)
fromisoformat(v) ==
    IF v.t = "str" /\ v.s # <<>> /\ Head(v.s) = "T" /\ AllDigits(Tail(v.s))
    THEN [err |-> FALSE, val |-> ParseNat(Tail(v.s))]
    ELSE [err |-> TRUE, val |-> NULL]

UpdExpectedReturnDate(item, data) ==
    IF "expected_return_date" \notin DOMAIN data THEN Step(FALSE, item)
    ELSE IF PyBool(data["expected_return_date"])
         THEN LET r == fromisoformat(data["expected_return_date"]) IN
              IF r.err THEN Step(TRUE, item)
              ELSE Step(FALSE, [item EXCEPT !.expected_return_date = r.val])
         ELSE Step(FALSE, [item EXCEPT !.expected_return_date = NULL])

\* UpdCompleted with completion marking the record returned as well
UpdCompleted_returns(item, data, t) ==
    IF "completed" \notin DOMAIN data THEN item
    ELSE LET new_completed == PyBool(data["completed"]) IN
         [item EXCEPT
            !.completed_at = IF new_completed /\ ~item.completed THEN t
                             ELSE IF ~new_completed THEN NULL
                             ELSE @,
            !.completed = new_completed,
            !.returned = IF new_completed THEN TRUE ELSE @]

UpdCompleted(item, data, t) ==
    IF "completed" \notin DOMAIN data THEN item
    ELSE LET new_completed == PyBool(data["completed"]) IN
         [item EXCEPT
            !.completed_at = IF new_completed /\ ~item.completed THEN t
                             ELSE IF ~new_completed THEN NULL
                             ELSE @,
            !.completed = new_completed]

\* the body of update_item between the snapshot and the commit: status 400
\* for a ValidationError, 500 for the uncaught error of fromisoformat; item
\* is the session's object as the assignments made before the error left it
ApplyUpdate(item, data, t) ==
    LET q == UpdQuantity(item, data)
        r == UpdReturned(q.item, data, t)
        b == UpdBlockQuantity(r, data, t)
        s == UpdSlideQuantity(b.item, data, t)
        n == UpdNotes(s.item, data)
        e == UpdExpectedReturnDate(n.item, data)
        c == UpdCompleted(e.item, data, t)
    IN  IF q.err THEN [status |-> 400, item |-> q.item]
        ELSE IF b.err THEN [status |-> 400, item |-> b.item]
        ELSE IF s.err THEN [status |-> 400, item |-> s.item]
        ELSE IF n.err THEN [status |-> 400, item |-> n.item]
        ELSE IF e.err THEN [status |-> 500, item |-> e.item]
        ELSE [status |-> 200, item |-> c]

\* ------------------------------------------------------------------------
\* Request inputs
\* ------------------------------------------------------------------------
AdminName == <<"k">>
AdminPassword == <<"a", "d", "m", "i", "n">>

ItemIds == 1..MaxItems
UserIds == 1..MaxUsers

EmptyMap == [k \in {} |-> JNull]
One(k, v) == [x \in {k} |-> v]
Two(k1, v1, k2, v2) == [x \in {k1, k2} |-> IF x = k1 THEN v1 ELSE v2]

Three(k1, v1, k2, v2, k3, v3) ==
    [x \in {k1, k2, k3} |-> IF x = k1 THEN v1 ELSE IF x = k2 THEN v2 ELSE v3]

ScanInputs ==
    { EmptyMap,
      One("barcode", JStr(<<"A", "1">>)),
      One("barcode", JStr(<<"^@">>)),
      Two("barcode", JStr(<<"^@">>), "notes", JStr(<<"x", "\n", "y">>)),
      Two("barcode", JStr(<<" ", "A", "1", "\n">>), "quantity", JInt(0)),
      Two("barcode", JInt(7), "notes", JStr(<<"x">>)),
      Three("barcode", JStr(<<"D", "E", "M", "O", "-", "1">>),
            "returned", JBool(TRUE), "block_quantity", JStr(<<"2">>)) }

UpdateInputs ==
    { One("quantity", JInt(0)),
      One("quantity", JInt(0 - 1)),
      One("returned", JBool(TRUE)),
      One("returned", JBool(FALSE)),
      One("block_quantity", JInt(1)),
      One("block_quantity", JInt(0)),
      One("slide_quantity", JInt(1)),
      One("slide_quantity", JNull),
      One("completed", JBool(TRUE)),
      One("completed", JBool(FALSE)) }

\* login attempts: user id, password, whether the backup storage is reachable
LoginInputs ==
    { <<0, <<>>, TRUE>>, <<1, <<>>, TRUE>>, <<1, AdminPassword, FALSE>>,
      <<1, <<"p">>, TRUE>>, <<2, <<>>, FALSE>>, <<2, <<>>, TRUE>>,
      <<2, <<"p">>, TRUE>> }

\* ------------------------------------------------------------------------
\* Initial state: init_db has run on an empty database
\* ------------------------------------------------------------------------
NoItems == [k \in {} |-> 0]

\* no validator has been called, no request is being handled
NoCall == [fn |-> "none", args |-> <<>>, done |-> FALSE, ret |-> Ok(None)]
NoRequests == <<>>

\* the app_settings table without a row: a key that is absent reads None
NoSettings == [return_days |-> None, last_backup_date |-> None]

Init ==
    /\ users = <<set_password(User(AdminName, TRUE, 0), AdminPassword)>>
    /\ items = NoItems
    /\ audit = <<>>
    /\ settings = NoSettings
    /\ session = 0
    /\ now = 0
    /\ call = NoCall
    /\ requests = NoRequests
    /\ backups = <<>>

\* the clock advances between requests
Tick ==
    /\ now < MaxTime
    /\ now' = now + 1
    /\ UNCHANGED <<call, requests, backups, users, items, audit, settings, session>>

\* ------------------------------------------------------------------------
\* app.py: authentication
\* ------------------------------------------------------------------------
\* Every handler is an operator X_response giving the HTTP status of the
\* request and the tables as the request leaves them, and an action X that
\* installs them.  @login_required answers 401 without a session.

\* do_login_response with an empty password refused for every user
do_login_response_password_required(user_id, password, storage_valid) ==
    IF user_id = 0 THEN [status |-> 400, session |-> session]
    ELSE IF user_id \notin DOMAIN users \/ ~users[user_id].is_active
         THEN [status |-> 400, session |-> session]
    ELSE IF ~users[user_id].is_admin /\ ~storage_valid
         THEN [status |-> 403, session |-> session]
    ELSE IF password = <<>> \/ ~check_password(users[user_id], password)
         THEN [status |-> 400, session |-> session]
    ELSE [status |-> 200, session |-> user_id]

do_login_response(user_id, password, storage_valid) ==
    IF user_id = 0 THEN [status |-> 400, session |-> session]
    ELSE IF user_id \notin DOMAIN users \/ ~users[user_id].is_active
         THEN [status |-> 400, session |-> session]
    ELSE IF ~users[user_id].is_admin /\ ~storage_valid
         THEN [status |-> 403, session |-> session]
    ELSE IF has_password(users[user_id])
            /\ (password = <<>> \/ ~check_password(users[user_id], password))
         THEN [status |-> 400, session |-> session]
    ELSE [status |-> 200, session |-> user_id]

do_login(user_id, password, storage_valid) ==
    /\ session' = do_login_response(user_id, password, storage_valid).session
    /\ UNCHANGED <<call, requests, backups, users, items, audit, settings, now>>

logout ==
    /\ session' = 0
    /\ UNCHANGED <<call, requests, backups, users, items, audit, settings, now>>

\* ------------------------------------------------------------------------
\* app.py: scan, update_item, delete_item
\* ------------------------------------------------------------------------
ItemResponse(status, its, log) == [status |-> status, items |-> its, audit |-> log]

\* MissingIdentification testing for None only
MissingIdentification_none(barcode, notes) == barcode = None /\ notes = None

\* scan: 'if not barcode and not notes'
MissingIdentification(barcode, notes) == ~Truthy(barcode) /\ ~Truthy(notes)

scan_response(json) ==
    LET data == sanitize_input(json)
        barcode == validate_barcode(Get(data, "barcode", JNull))
        patient_id == validate_patient_id(Get(data, "patient_id", JNull))
        notes == validate_notes(Get(data, "notes", JNull))
        quantity == validate_quantity(Get(data, "quantity", JInt(1)), 1)
        block_quantity == validate_quantity(Get(data, "block_quantity", JInt(0)), 0)
        slide_quantity == validate_quantity(Get(data, "slide_quantity", JInt(0)), 0)
        returned == PyBool(Get(data, "returned", JBool(FALSE)))
        return_days == ParseNat(AppSettingsGet(settings, "return_days",
                                               PyStr(DEFAULT_RETURN_DAYS)))
        expected_return_date == now + return_days * DayLen
        id == NextId(DOMAIN items)
        item == ItemLog(barcode.val, patient_id.val, quantity.val, session,
                        expected_return_date, returned, block_quantity.val,
                        slide_quantity.val, notes.val, now)
        added == [k \in DOMAIN items \cup {id} |->
                     IF k = id THEN item ELSE items[k]]
    IN  IF session = 0 THEN ItemResponse(401, items, audit)
        ELSE IF barcode.err \/ patient_id.err \/ notes.err \/ quantity.err
                \/ block_quantity.err \/ slide_quantity.err
             THEN ItemResponse(400, items, audit)
        ELSE IF MissingIdentification(barcode.val, notes.val)
             THEN ItemResponse(400, items, audit)
        ELSE IF quantity.val < 1 THEN ItemResponse(400, items, audit)
        ELSE ItemResponse(200, added,
                create_audit_log("CREATE", "item_logs", id, JsonNone,
                    json_dumps(ItemToDict(id, item, users, now))))

scan(json) ==
    /\ Len(audit) < MaxAudit
    /\ NextId(DOMAIN items) <= MaxItems
    /\ \E r \in {scan_response(json)} :
           /\ items' = r.items
           /\ audit' = r.audit
    /\ UNCHANGED <<call, requests, backups, users, settings, session, now>>

\* UpdateOutcome with the old snapshot taken after the assignments
UpdateOutcome_stale(item_id, upd) ==
    IF upd.status # 200 THEN ItemResponse(upd.status, items, audit)
    ELSE ItemResponse(200, [items EXCEPT ![item_id] = upd.item],
            create_audit_log("UPDATE", "item_logs", item_id,
                json_dumps(ItemToDict(item_id, upd.item, users, now)),
                json_dumps(ItemToDict(item_id, upd.item, users, now))))

\* UpdateOutcome with the object of a refused request written to the
\* database as it stands
UpdateOutcome_flush(item_id, upd) ==
    IF upd.status # 200
    THEN ItemResponse(upd.status, [items EXCEPT ![item_id] = upd.item], audit)
    ELSE ItemResponse(200, [items EXCEPT ![item_id] = upd.item],
            create_audit_log("UPDATE", "item_logs", item_id,
                json_dumps(ItemToDict(item_id, items[item_id], users, now)),
                json_dumps(ItemToDict(item_id, upd.item, users, now))))

\* the end of update_item: the error response, or the commit and the audit
\* entry with the snapshots taken before and after
UpdateOutcome(item_id, upd) ==
    IF upd.status # 200 THEN ItemResponse(upd.status, items, audit)
    ELSE ItemResponse(200, [items EXCEPT ![item_id] = upd.item],
            create_audit_log("UPDATE", "item_logs", item_id,
                json_dumps(ItemToDict(item_id, items[item_id], users, now)),
                json_dumps(ItemToDict(item_id, upd.item, users, now))))

update_item_response(item_id, json) ==
    IF session = 0 THEN ItemResponse(401, items, audit)
    ELSE IF item_id \notin DOMAIN items THEN ItemResponse(404, items, audit)
    ELSE CHOOSE r \in
            { UpdateOutcome(item_id, upd) :
                upd \in {ApplyUpdate(items[item_id], sanitize_input(json), now)} } :
            TRUE

update_item(item_id, json) ==
    /\ Len(audit) < MaxAudit
    /\ \E r \in {update_item_response(item_id, json)} :
           /\ items' = r.items
           /\ audit' = r.audit
    /\ UNCHANGED <<call, requests, backups, users, settings, session, now>>

\* delete_item_response with deletion marking the record completed
delete_item_response_completing(item_id) ==
    IF session = 0 THEN ItemResponse(401, items, audit)
    ELSE IF item_id \notin DOMAIN items THEN ItemResponse(404, items, audit)
    ELSE LET old_value == ItemToDict(item_id, items[item_id], users, now) IN
         ItemResponse(200,
            [items EXCEPT ![item_id].deleted_at = now, ![item_id].completed = TRUE],
            create_audit_log("DELETE", "item_logs", item_id,
                json_dumps(old_value), JsonNone))

delete_item_response(item_id) ==
    IF session = 0 THEN ItemResponse(401, items, audit)
    ELSE IF item_id \notin DOMAIN items THEN ItemResponse(404, items, audit)
    ELSE LET old_value == ItemToDict(item_id, items[item_id], users, now) IN
         ItemResponse(200, [items EXCEPT ![item_id].deleted_at = now],
            create_audit_log("DELETE", "item_logs", item_id,
                json_dumps(old_value), JsonNone))

delete_item(item_id) ==
    /\ Len(audit) < MaxAudit
    /\ \E r \in {delete_item_response(item_id)} :
           /\ items' = r.items
           /\ audit' = r.audit
    /\ UNCHANGED <<call, requests, backups, users, settings, session, now>>

\* ------------------------------------------------------------------------
\* app.py: history, get_item, audit_logs (reads)
\* ------------------------------------------------------------------------
\* the characters of the model in ASCII order ("^@" stands for NUL), and the
\* upper-case letter of each lower-case one
Ascii ==
    <<"^@", "\t", "\n", "\r", " ", "#", "%", "-",
      "0", "1", "2", "3", "4", "5", "6", "7", "8", "9",
      "A", "B", "D", "E", "K", "M", "N", "O", "P", "T", "U", "X", "Y", "_",
      "a", "b", "d", "e", "k", "m", "n", "o", "p", "u", "x", "y", "^?">>

Ord(c) == CHOOSE k \in 1..Len(Ascii) : Ascii[k] = c

\* SQLite's LIKE compares ASCII letters without regard to case
Fold(c) ==
    CASE c = "a" -> "A" [] c = "b" -> "B" [] c = "d" -> "D" [] c = "e" -> "E"
      [] c = "k" -> "K" [] c = "m" -> "M" [] c = "n" -> "N" [] c = "o" -> "O"
      [] c = "p" -> "P" [] c = "u" -> "U" [] c = "x" -> "X" [] c = "y" -> "Y"
      [] OTHER -> c

FoldStr(str) == [k \in 1..Len(str) |-> Fold(str[k])]

\* column LIKE prefix || '%'; NULL matches nothing
StartsWith(col, prefix) ==
    /\ col # None
    /\ Len(col) >= Len(prefix)
    /\ FoldStr(SubSeq(col, 1, Len(prefix))) = FoldStr(prefix)

\* str LIKE pattern in SQLite: % matches any run of characters, _ any one
\* character, a letter matches itself in either case
RECURSIVE Like(_, _)
Like(pattern, str) ==
    IF pattern = <<>> THEN str = <<>>
    ELSE IF Head(pattern) = "%"
         THEN Like(Tail(pattern), str) \/ (str # <<>> /\ Like(pattern, Tail(str)))
    ELSE /\ str # <<>>
         /\ (Head(pattern) = "_" \/ Fold(Head(pattern)) = Fold(Head(str)))
         /\ Like(Tail(pattern), Tail(str))

\* column.contains(term): column LIKE '%' || term || '%', the term not
\* escaped; NULL matches nothing
Contains(col, term) ==
    col # None /\ Like(<<"%">> \o term \o <<"%">>, col)

today_start(t) == t - (t % DayLen)

Filters ==
    {"all", "unreturned", "overdue", "today", "yesterday", "today_incomplete",
     "yesterday_incomplete", "incomplete"}

\* the filter predicate of history() on one row, at time t
FilterMatch(filter_type, item, t) ==
    CASE filter_type = "unreturned" -> ~item.completed
      [] filter_type = "overdue" ->
            /\ ~item.completed
            /\ item.expected_return_date # NULL
            /\ item.expected_return_date < t
      [] filter_type = "today" -> item.scanned_at >= today_start(t)
      [] filter_type = "yesterday" ->
            /\ item.scanned_at >= today_start(t) - DayLen
            /\ item.scanned_at < today_start(t)
      [] filter_type = "today_incomplete" ->
            item.scanned_at >= today_start(t) /\ ~item.completed
      [] filter_type = "yesterday_incomplete" ->
            /\ item.scanned_at >= today_start(t) - DayLen
            /\ item.scanned_at < today_start(t)
            /\ ~item.completed
      [] filter_type = "incomplete" -> ~item.completed
      [] OTHER -> TRUE

SearchMatch(search, item) ==
    LET term == Strip(search) IN
    term # <<>> =>
        \/ Contains(item.barcode, term)
        \/ Contains(item.patient_id, term)
        \/ Contains(item.notes, term)

\* the rows history() selects before it sorts and paginates them
HistoryQuery(its, filter_type, search, t) ==
    { id \in DOMAIN its :
        /\ its[id].deleted_at = NULL
        /\ FilterMatch(filter_type, its[id], t)
        /\ SearchMatch(search, its[id]) }

\* a < b for strings in SQLite's BINARY collation
RECURSIVE StrLess(_, _)
StrLess(a, b) ==
    IF b = <<>> THEN FALSE
    ELSE IF a = <<>> THEN TRUE
    ELSE IF Head(a) = Head(b) THEN StrLess(Tail(a), Tail(b))
    ELSE Ord(Head(a)) < Ord(Head(b))

\* barcode.asc(): NULL sorts before every string
BarcodeLess(a, b) ==
    IF a = None THEN b # None
    ELSE b # None /\ StrLess(a, b)

\* Precedes with the default order ascending
Precedes_ascending(sort, x, y) ==
    CASE sort = "oldest" -> x.scanned_at <= y.scanned_at
      [] sort = "overdue" ->
            \/ y.expected_return_date = NULL
            \/ /\ x.expected_return_date # NULL
               /\ x.expected_return_date <= y.expected_return_date
      [] sort = "barcode" ->
            \/ BarcodeLess(x.barcode, y.barcode)
            \/ x.barcode = y.barcode /\ x.scanned_at >= y.scanned_at
      [] OTHER -> x.scanned_at <= y.scanned_at

\* ORDER BY of history(): row x may stand before row y
Precedes(sort, x, y) ==
    CASE sort = "oldest" -> x.scanned_at <= y.scanned_at
      [] sort = "overdue" ->
            \/ y.expected_return_date = NULL
            \/ /\ x.expected_return_date # NULL
               /\ x.expected_return_date <= y.expected_return_date
      [] sort = "barcode" ->
            \/ BarcodeLess(x.barcode, y.barcode)
            \/ x.barcode = y.barcode /\ x.scanned_at >= y.scanned_at
      [] OTHER -> x.scanned_at >= y.scanned_at

\* the orders in which the database may return the rows ids: rows that
\* compare equal under the ORDER BY come in an order SQL leaves open
Orderings(ids, sort, its) ==
    { o \in [1..Cardinality(ids) -> ids] :
        \A i, j \in 1..Cardinality(ids) :
            i < j => o[i] # o[j] /\ Precedes(sort, its[o[i]], its[o[j]]) }

\* Paginate with the pages counted from 0
Paginate_zero_indexed(o, page, per_page) ==
    LET p == IF page < 1 THEN 1 ELSE page
        total == Len(o)
        pages == (total + per_page - 1) \div per_page
        last == IF (p + 1) * per_page < total THEN (p + 1) * per_page ELSE total
    IN  [items |-> SubSeq(o, p * per_page + 1, last),
         total |-> total, pages |-> pages,
         has_next |-> p < pages, has_prev |-> p > 1]

\* query.paginate(page=page, per_page=per_page, error_out=False) on the
\* ordered rows o, for per_page >= 1; a page below 1 is read as page 1
Paginate(o, page, per_page) ==
    LET p == IF page < 1 THEN 1 ELSE page
        total == Len(o)
        pages == (total + per_page - 1) \div per_page
        last == IF p * per_page < total THEN p * per_page ELSE total
    IN  [items |-> SubSeq(o, (p - 1) * per_page + 1, last),
         total |-> total, pages |-> pages,
         has_next |-> p < pages, has_prev |-> p > 1]

\* history(): the responses the request may get
history(sess, its, us, filter_type, search, sort, page, per_page, t) ==
    IF sess = 0
    THEN { [status |-> 401, items |-> <<>>, total |-> 0, pages |-> 0,
            current_page |-> page, has_next |-> FALSE, has_prev |-> FALSE] }
    ELSE { [status |-> 200,
            items |-> [k \in 1..Len(pg.items) |->
                          ItemToDict(pg.items[k], its[pg.items[k]], us, t)],
            total |-> pg.total, pages |-> pg.pages, current_page |-> page,
            has_next |-> pg.has_next, has_prev |-> pg.has_prev] :
           pg \in { Paginate(o, page, per_page) :
                      o \in Orderings(HistoryQuery(its, filter_type, search, t),
                                      sort, its) } }

\* ------------------------------------------------------------------------
\* app.py: export_csv
\* ------------------------------------------------------------------------
\* the filter of export_csv() on one row, at time t
ExportFilterMatch(filter_type, item, t) ==
    CASE filter_type = "unreturned" -> ~item.completed
      [] filter_type = "overdue" ->
            /\ ~item.completed
            /\ item.expected_return_date # NULL
            /\ item.expected_return_date < t
      [] OTHER -> TRUE

ExportSearchMatch(search, item) ==
    LET term == Strip(search) IN
    term # <<>> =>
        \/ Contains(item.barcode, term)
        \/ Contains(item.notes, term)

\* the rows export_csv() selects
ExportQuery(its, filter_type, search, t) ==
    { id \in DOMAIN its :
        /\ its[id].deleted_at = NULL
        /\ ExportFilterMatch(filter_type, its[id], t)
        /\ ExportSearchMatch(search, its[id]) }

\* the text csv.writer writes for an integer
CsvInt(n) == IF n < 0 THEN <<"-">> \o PyStr(0 - n) ELSE PyStr(n)

\* one data row of the export; None and 'x or ""' of a zero are empty cells
CsvRow(id, item, us) ==
    [id |-> CsvInt(id),
     barcode |-> IF item.barcode = None THEN <<>> ELSE item.barcode,
     quantity |-> CsvInt(item.quantity),
     scanned_by |-> IF item.scanned_by_id \in DOMAIN us
                    THEN us[item.scanned_by_id].name ELSE <<>>,
     scanned_at |-> IF item.scanned_at = NULL THEN <<>> ELSE CsvInt(item.scanned_at),
     block_quantity |-> IF item.block_quantity = 0 THEN <<>>
                        ELSE CsvInt(item.block_quantity),
     slide_quantity |-> IF item.slide_quantity = 0 THEN <<>>
                        ELSE CsvInt(item.slide_quantity),
     notes |-> IF Truthy(item.notes) THEN item.notes ELSE <<>>]

\* export_csv(): the data rows the request may get, after the header row
export_csv(sess, its, us, filter_type, search, t) ==
    IF sess = 0 THEN { [status |-> 401, rows |-> <<>>] }
    ELSE { [status |-> 200,
            rows |-> [k \in 1..Len(o) |-> CsvRow(o[k], its[o[k]], us)]] :
           o \in Orderings(ExportQuery(its, filter_type, search, t),
                           "newest", its) }

\* int(request.args.get(key, default)): the values of a query string are
\* strings
QueryInt(args, key, default) ==
    IF key \in DOMAIN args THEN PyInt(JStr(args[key]))
    ELSE [err |-> FALSE, val |-> default]

\* the history route on a query string: int() of page and per_page raises
\* ValueError for a value that is not a number, which nothing catches (500)
history_request(sess, its, us, args, t) ==
    IF sess = 0 THEN history(sess, its, us, "all", <<>>, "newest", 1, 50, t)
    ELSE IF QueryInt(args, "page", 1).err \/ QueryInt(args, "per_page", 50).err
    THEN { [status |-> 500, items |-> <<>>, total |-> 0, pages |-> 0,
            current_page |-> 0, has_next |-> FALSE, has_prev |-> FALSE] }
    ELSE history(sess, its, us, Get(args, "filter", "all"),
                 Get(args, "search", <<>>), Get(args, "sort", "newest"),
                 QueryInt(args, "page", 1).val,
                 QueryInt(args, "per_page", 50).val, t)

\* audit_logs(): the status of the response and the counts it reports
audit_logs(sess, log, args) ==
    IF sess = 0 THEN [status |-> 401, total |-> 0, pages |-> 0]
    ELSE IF QueryInt(args, "page", 1).err \/ QueryInt(args, "per_page", 50).err
    THEN [status |-> 500, total |-> 0, pages |-> 0]
    ELSE [status |-> 200, total |-> Len(log),
          pages |-> (Len(log) + QueryInt(args, "per_page", 50).val - 1)
                        \div QueryInt(args, "per_page", 50).val]

\* get_item: get_or_404, then to_dict
get_item(sess, its, item_id, us, t) ==
    IF sess = 0 THEN [status |-> 401, item |-> <<>>]
    ELSE IF item_id \in DOMAIN its
    THEN [status |-> 200, item |-> <<ItemToDict(item_id, its[item_id], us, t)>>]
    ELSE [status |-> 404, item |-> <<>>]

\* ------------------------------------------------------------------------
\* app.py: demo data
\* ------------------------------------------------------------------------
DemoPrefix == <<"D", "E", "M", "O", "-">>

\* ItemLog(user_id=...) names no column of ItemLog: the constructor raises
\* TypeError, which the handler catches, rolls back and reports as
\* success: false
insert_demo_data_response ==
    IF session = 0 THEN [status |-> 401, success |-> FALSE, items |-> items]
    ELSE IF ~users[session].is_admin
         THEN [status |-> 403, success |-> FALSE, items |-> items]
    ELSE [status |-> 200, success |-> FALSE, items |-> items]

insert_demo_data ==
    /\ items' = insert_demo_data_response.items
    /\ UNCHANGED <<call, requests, backups, users, audit, settings, session, now>>

\* cleanup_demo_data_response with the audit entries of the purged records
\* deleted along with them
cleanup_demo_data_response_cascade ==
    IF session = 0 THEN ItemResponse(401, items, audit)
    ELSE IF ~users[session].is_admin THEN ItemResponse(403, items, audit)
    ELSE LET demo_items == { id \in DOMAIN items :
                                StartsWith(items[id].barcode, DemoPrefix) }
         IN  ItemResponse(200, [id \in DOMAIN items \ demo_items |-> items[id]],
                SelectSeq(audit, LAMBDA e : ~(e.table_name = "item_logs"
                                              /\ e.record_id \in demo_items)))

cleanup_demo_data_response ==
    IF session = 0 THEN ItemResponse(401, items, audit)
    ELSE IF ~users[session].is_admin THEN ItemResponse(403, items, audit)
    ELSE LET demo_items == { id \in DOMAIN items :
                                StartsWith(items[id].barcode, DemoPrefix) }
         IN  ItemResponse(200, [id \in DOMAIN items \ demo_items |-> items[id]],
                          audit)

cleanup_demo_data ==
    /\ \E r \in {cleanup_demo_data_response} :
           /\ items' = r.items
           /\ audit' = r.audit
    /\ UNCHANGED <<call, requests, backups, users, settings, session, now>>

\* ------------------------------------------------------------------------
\* app.py: settings
\* ------------------------------------------------------------------------
settings_return_days_response(json) ==
    LET data == sanitize_input(json)
        days == validate_return_days(Get(data, "days", JNull))
    IN  IF session = 0 THEN [status |-> 401, settings |-> settings]
        ELSE IF days.err THEN [status |-> 400, settings |-> settings]
        ELSE [status |-> 200,
              settings |-> [settings EXCEPT !.return_days = PyStr(days.val)]]

settings_return_days(json) ==
    /\ settings' = settings_return_days_response(json).settings
    /\ UNCHANGED <<call, requests, backups, users, items, audit, session, now>>

\* ------------------------------------------------------------------------
\* app.py: user management
\* ------------------------------------------------------------------------
UserResponse(status, us, log) == [status |-> status, users |-> us, audit |-> log]

NameTaken(us, name, except_id) ==
    \E k \in DOMAIN us : k # except_id /\ us[k].name = name

\* no @login_required, and no audit entry
register_user_response(json) ==
    LET raw == Get(json, "name", JStr(<<>>)) IN
    IF raw.t # "str" THEN UserResponse(500, users, audit)
    ELSE LET name == Strip(raw.s) IN
         IF name = <<>> THEN UserResponse(400, users, audit)
         ELSE IF NameTaken(users, name, 0) THEN UserResponse(400, users, audit)
         ELSE UserResponse(200, Append(users, User(name, FALSE, now)), audit)

register_user(json) ==
    /\ Len(users) < MaxUsers
    /\ \E r \in {register_user_response(json)} :
           /\ users' = r.users
           /\ audit' = r.audit
    /\ UNCHANGED <<call, requests, backups, items, settings, session, now>>

create_user_response(json) ==
    LET data == sanitize_input(json)
        name == validate_user_name(Get(data, "name", JNull), TRUE)
        password == validate_password(Get(data, "password", JNull))
        is_admin == PyBool(Get(data, "is_admin", JBool(FALSE)))
        user == IF Truthy(password.val)
                THEN set_password(User(name.val, is_admin, now), password.val)
                ELSE User(name.val, is_admin, now)
        id == Len(users) + 1
    IN  IF session = 0 THEN UserResponse(401, users, audit)
        ELSE IF name.err \/ password.err THEN UserResponse(400, users, audit)
        ELSE IF NameTaken(users, name.val, 0) THEN UserResponse(400, users, audit)
        ELSE UserResponse(200, Append(users, user),
                create_audit_log("CREATE", "users", id, JsonNone,
                    json_dumps(UserToDict(id, user))))

create_user(json) ==
    /\ Len(users) < MaxUsers
    /\ Len(audit) < MaxUserAudit
    /\ \E r \in {create_user_response(json)} :
           /\ users' = r.users
           /\ audit' = r.audit
    /\ UNCHANGED <<call, requests, backups, items, settings, session, now>>

\* status 0: the assignment went through
UStep(status, user) == [status |-> status, user |-> user]

UpdUserName(us, user_id, user, data) ==
    IF "name" \notin DOMAIN data THEN UStep(0, user)
    ELSE LET name == validate_user_name(data["name"], TRUE) IN
         IF name.err THEN UStep(400, user)
         ELSE IF NameTaken(us, name.val, user_id) THEN UStep(400, user)
         ELSE UStep(0, [user EXCEPT !.name = name.val])

UpdUserActive(user, data) ==
    IF "is_active" \in DOMAIN data
    THEN [user EXCEPT !.is_active = PyBool(data["is_active"])]
    ELSE user

UpdUserAdmin(user, data) ==
    IF "is_admin" \in DOMAIN data
    THEN [user EXCEPT !.is_admin = PyBool(data["is_admin"])]
    ELSE user

UpdUserPassword(user, data) ==
    IF "password" \notin DOMAIN data THEN UStep(0, user)
    ELSE LET password == validate_password(data["password"]) IN
         IF password.err THEN UStep(400, user)
         ELSE IF Truthy(password.val) THEN UStep(0, set_password(user, password.val))
         ELSE IF PyBool(Get(data, "clear_password", JNull))
              THEN UStep(0, [user EXCEPT !.password_hash = None])
              ELSE UStep(0, user)

update_user_response(user_id, json) ==
    IF session = 0 THEN UserResponse(401, users, audit)
    ELSE IF user_id \notin DOMAIN users THEN UserResponse(404, users, audit)
    ELSE LET user == users[user_id]
             data == sanitize_input(json)
             old_value == UserToDict(user_id, user)
             n == UpdUserName(users, user_id, user, data)
             a == UpdUserAdmin(UpdUserActive(n.user, data), data)
             p == UpdUserPassword(a, data)
         IN  IF n.status # 0 \/ p.status # 0 THEN UserResponse(400, users, audit)
             ELSE UserResponse(200, [users EXCEPT ![user_id] = p.user],
                    create_audit_log("UPDATE", "users", user_id,
                        json_dumps(old_value),
                        json_dumps(UserToDict(user_id, p.user))))

update_user(user_id, json) ==
    /\ Len(audit) < MaxUserAudit
    /\ \E r \in {update_user_response(user_id, json)} :
           /\ users' = r.users
           /\ audit' = r.audit
    /\ UNCHANGED <<call, requests, backups, items, settings, session, now>>

\* the handler reads the name current_user, which app.py neither defines nor
\* imports: its first statement raises NameError and the request ends in 500
delete_user_response(user_id) ==
    IF session = 0 THEN UserResponse(401, users, audit)
    ELSE UserResponse(500, users, audit)

delete_user(user_id) ==
    /\ \E r \in {delete_user_response(user_id)} :
           /\ users' = r.users
           /\ audit' = r.audit
    /\ UNCHANGED <<call, requests, backups, items, settings, session, now>>

RegisterInputs ==
    { EmptyMap,
      One("name", JStr(<<" ", "b">>)),
      One("name", JStr(AdminName)),
      One("name", JNull) }

CreateUserInputs ==
    { EmptyMap,
      One("name", JStr(<<"b">>)),
      One("name", JStr(AdminName)),
      Two("name", JStr(<<"c">>), "is_admin", JBool(TRUE)),
      Two("name", JStr(<<"b">>), "password", JStr(<<"p">>)) }

UpdateUserInputs ==
    { One("is_admin", JBool(FALSE)),
      One("is_admin", JBool(TRUE)),
      One("is_active", JBool(FALSE)),
      One("is_active", JBool(TRUE)),
      One("name", JStr(AdminName)),
      One("password", JStr(<<"p">>)),
      Two("password", JStr(<<>>), "clear_password", JBool(TRUE)) }

\* ------------------------------------------------------------------------
\* Specifications
\* ------------------------------------------------------------------------
\* the item lifecycle: scanning, updating, deleting, the demo-data routes
Next ==
    \/ Tick
    \/ \E l \in LoginInputs : do_login(l[1], l[2], l[3])
    \/ \E d \in ScanInputs : scan(d)
    \/ \E i \in ItemIds, d \in UpdateInputs : update_item(i, d)
    \/ \E i \in ItemIds : delete_item(i)
    \/ insert_demo_data
    \/ cleanup_demo_data

Spec == Init /\ [][Next]_vars

\* user management
NextUsers ==
    \/ \E l \in LoginInputs : do_login(l[1], l[2], l[3])
    \/ logout
    \/ \E d \in RegisterInputs : register_user(d)
    \/ \E d \in CreateUserInputs : create_user(d)
    \/ \E u \in UserIds, d \in UpdateUserInputs : update_user(u, d)
    \/ \E u \in UserIds : delete_user(u)

SpecUsers == Init /\ [][NextUsers]_vars

\* The history views: records scanned on two days, completed, given or
\* stripped of a due date, and soft-deleted.
HistoryScanInputs ==
    { One("barcode", JStr(<<"A", "1">>)),
      Two("barcode", JStr(<<"b">>), "patient_id", JStr(<<"p", "1">>)),
      One("notes", JStr(<<"x">>)) }

HistoryUpdateInputs ==
    { Two("completed", JBool(TRUE), "expected_return_date", JNull),
      One("expected_return_date", JStr(<<"T", "0">>)) }

TickHistory ==
    /\ now < MaxHistTime
    /\ now' = now + 1
    /\ UNCHANGED <<call, requests, backups, users, items, audit, settings, session>>

NextHistory ==
    \/ TickHistory
    \/ do_login(1, AdminPassword, TRUE)
    \/ \E d \in HistoryScanInputs : scan(d)
    \/ \E i \in ItemIds, d \in HistoryUpdateInputs : update_item(i, d)
    \/ \E i \in ItemIds : delete_item(i)

SpecHistory == Init /\ [][NextHistory]_vars

\* the fields of a record: updates that submit each key alone and keys
\* update_item does not handle, and soft deletion
FieldScanInputs == { One("barcode", JStr(<<"A", "1">>)) }

FieldUpdateInputs ==
    { One("quantity", JInt(2)),
      One("returned", JBool(TRUE)),
      One("block_quantity", JInt(1)),
      One("slide_quantity", JInt(1)),
      One("completed", JBool(TRUE)),
      One("notes", JStr(<<"n">>)),
      One("expected_return_date", JStr(<<"T", "0">>)),
      Two("scanned_at", JStr(<<"T", "1">>), "deleted_at", JStr(<<"T", "1">>)),
      Two("returned", JBool(TRUE), "block_quantity", JInt(0 - 1)),
      Two("quantity", JInt(2), "notes", JInt(5)) }

ReturnDaysInputs ==
    { One("days", JInt(1)),
      One("days", JInt(365)),
      One("days", JInt(0)),
      One("days", JInt(366)),
      One("days", JStr(<<"x">>)) }

NextFields ==
    \/ TickHistory
    \/ do_login(1, AdminPassword, TRUE)
    \/ \E d \in FieldScanInputs : scan(d)
    \/ \E i \in ItemIds, d \in FieldUpdateInputs : update_item(i, d)
    \/ \E i \in ItemIds : delete_item(i)

SpecFields == Init /\ [][NextFields]_vars

\* the return-days setting and the records scanned under it
NextSettings ==
    \/ TickHistory
    \/ do_login(1, AdminPassword, TRUE)
    \/ \E d \in FieldScanInputs : scan(d)
    \/ \E i \in ItemIds : delete_item(i)
    \/ \E d \in ReturnDaysInputs : settings_return_days(d)

SpecSettings == Init /\ [][NextSettings]_vars

\* ------------------------------------------------------------------------
\* validators.py called on its own
\* ------------------------------------------------------------------------
\* the strings of at most MaxLen characters over the alphabet, and the
\* string of n letters x
Alphabet == {" ", "a", "\t", "\n", "^@"}
StringsUpTo(n) == UNION { [1..k -> Alphabet] : k \in 0..n }
Xs(n) == [k \in 1..n |-> "x"]

StringInputs ==
    {JNull, JInt(5), JBool(TRUE)} \cup { JStr(str) : str \in StringsUpTo(MaxLen) }

IntegerInputs ==
    {JNull, JBool(TRUE), JStr(<<>>), JStr(<<"a">>), JStr(<<"7">>),
     JStr(<<" ", "7", "\n">>), JStr(<<"-", "1">>), JStr(<<"3", "6", "6">>)}
    \cup { JInt(n) : n \in {0 - 1, 0, 1, 14, 365, 366, 9999, 10000} }
    \cup { JFloat(n) : n \in {0 - 5, 5, 15, 3655, 99995} }

\* validate_integer(value, field_name, min_val, max_val, default)
IntegerBounds == { <<0, NULL, 0>>, <<0, 9999, 1>>, <<1, 365, 14>>, <<2, 3, 2>> }

Call(fn, args) == [fn |-> fn, args |-> args, done |-> FALSE, ret |-> Ok(None)]

ValidatorCalls ==
    { Call("validate_string", <<v, m, r>>) :
        v \in StringInputs, m \in {1, 2, MaxLen}, r \in BOOLEAN }
    \cup { Call("validate_string", <<JStr(Xs(n)), LIMITS.notes, FALSE>>) :
            n \in {LIMITS.notes, LIMITS.notes + 1} }
    \cup { Call("validate_integer", <<v>> \o b) :
            v \in IntegerInputs, b \in IntegerBounds }
    \cup { Call("validate_quantity", <<v, 0>>) : v \in IntegerInputs }
    \cup { Call("validate_return_days", <<v>>) : v \in IntegerInputs }
    \cup { Call(fn, <<v>>) :
            fn \in {"validate_barcode", "validate_patient_id", "validate_notes"},
            v \in StringInputs }

InitValidators ==
    /\ users = <<set_password(User(AdminName, TRUE, 0), AdminPassword)>>
    /\ items = NoItems
    /\ audit = <<>>
    /\ settings = NoSettings
    /\ session = 0
    /\ now = 0
    /\ call \in ValidatorCalls
    /\ requests = NoRequests
    /\ backups = <<>>

\* the call returns (or raises): ret is its result
Return(fn, ret) ==
    /\ call.fn = fn /\ ~call.done
    /\ call' = [call EXCEPT !.done = TRUE, !.ret = ret]
    /\ UNCHANGED <<users, items, audit, settings, session, now, requests, backups>>

call_validate_string ==
    Return("validate_string",
           validate_string(call.args[1], call.args[2], call.args[3]))

call_validate_integer ==
    Return("validate_integer",
           validate_integer(call.args[1], call.args[2], call.args[3], call.args[4]))

call_validate_quantity ==
    Return("validate_quantity", validate_quantity(call.args[1], call.args[2]))

call_validate_return_days ==
    Return("validate_return_days", validate_return_days(call.args[1]))

call_validate_barcode ==
    Return("validate_barcode", validate_barcode(call.args[1]))

call_validate_patient_id ==
    Return("validate_patient_id", validate_patient_id(call.args[1]))

call_validate_notes ==
    Return("validate_notes", validate_notes(call.args[1]))

NextValidators ==
    \/ call_validate_string
    \/ call_validate_integer
    \/ call_validate_quantity
    \/ call_validate_return_days
    \/ call_validate_barcode
    \/ call_validate_patient_id
    \/ call_validate_notes

SpecValidators == InitValidators /\ [][NextValidators]_vars

\* ------------------------------------------------------------------------
\* scan, update_item and delete_item statement by statement
\* ------------------------------------------------------------------------
\* The development server answers each request on a thread of its own, so
\* the handlers interleave at their database statements.  A request in
\* flight is a record of `requests': the row it loaded (row), the object
\* with its assignments (obj), the snapshot old_value, and its position pc:
\* "commit" before db.session.commit() of the handler, "audit" before the
\* commit of create_audit_log, "log" before audit_logger.info, "done" after.
\* Each of the three statements may fail (ok = FALSE): a failed commit
\* raises and the request ends in 500; the logging module swallows the
\* error of a handler that cannot write.  A request that has ended keeps
\* its status; its locals are gone.
MaxRequests == 2

Request(op, item_id, row, obj, old_value) ==
    [op |-> op, item_id |-> item_id, row |-> row, obj |-> obj,
     old_value |-> old_value, pc |-> "commit", status |-> 0, failed |-> "none",
     committed |-> FALSE]

\* scan up to the construction of ItemLog(...): the id and scanned_at are
\* given by the INSERT
begin_scan(json) ==
    /\ Len(requests) < MaxRequests
    /\ \E r \in {scan_response(json)} :
           /\ r.status = 200
           /\ requests' = Append(requests,
                  Request("scan", 0, r.items[NextId(DOMAIN items)],
                          r.items[NextId(DOMAIN items)], JsonNone))
    /\ UNCHANGED <<call, backups, users, items, audit, settings, session, now>>

\* update_item up to the last assignment
begin_update(item_id, json) ==
    /\ Len(requests) < MaxRequests
    /\ session # 0
    /\ item_id \in DOMAIN items
    /\ \E upd \in {ApplyUpdate(items[item_id], sanitize_input(json), now)} :
           /\ upd.status = 200
           /\ requests' = Append(requests,
                  Request("update", item_id, items[item_id], upd.item,
                          json_dumps(ItemToDict(item_id, items[item_id], users, now))))
    /\ UNCHANGED <<call, backups, users, items, audit, settings, session, now>>

\* delete_item up to the assignment of deleted_at
begin_delete(item_id) ==
    /\ Len(requests) < MaxRequests
    /\ session # 0
    /\ item_id \in DOMAIN items
    /\ requests' = Append(requests,
           Request("delete", item_id, items[item_id],
                   [items[item_id] EXCEPT !.deleted_at = now],
                   json_dumps(ItemToDict(item_id, items[item_id], users, now))))
    /\ UNCHANGED <<call, backups, users, items, audit, settings, session, now>>

\* the UPDATE of a flush sets the columns whose value the request changed
\* and leaves the others as the table has them
Flush(current, row, obj) ==
    [f \in DOMAIN current |-> IF obj[f] # row[f] THEN obj[f] ELSE current[f]]

\* the table after db.session.commit() of request k
Committed(k) ==
    LET q == requests[k]
        id == NextId(DOMAIN items)
    IN  IF q.op = "scan"
        THEN [i \in DOMAIN items \cup {id} |->
                 IF i = id THEN [q.obj EXCEPT !.scanned_at = now] ELSE items[i]]
        ELSE [items EXCEPT ![q.item_id] = Flush(@, q.row, q.obj)]

Ended(q, status, statement) ==
    [q EXCEPT !.pc = "done", !.status = status, !.failed = statement,
              !.row = None, !.obj = None, !.old_value = JsonNone]

commit_mutation(k, ok) ==
    /\ k \in DOMAIN requests
    /\ requests[k].pc = "commit"
    /\ requests[k].op = "scan" => NextId(DOMAIN items) <= MaxItems
    /\ IF ok
       THEN /\ items' = Committed(k)
            /\ requests' = [requests EXCEPT
                   ![k].pc = "audit",
                   ![k].committed = TRUE,
                   ![k].item_id = IF @ = 0 THEN NextId(DOMAIN items) ELSE @]
       ELSE /\ items' = items
            /\ requests' = [requests EXCEPT ![k] = Ended(@, 500, "commit")]
    /\ UNCHANGED <<call, backups, users, audit, settings, session, now>>

\* the audit entry of request k: item.to_dict() after the commit reads the
\* row again
AuditEntry(k) ==
    LET q == requests[k]
        new_value == json_dumps(ItemToDict(q.item_id, items[q.item_id], users, now))
    IN  CASE q.op = "scan" ->
                create_audit_log("CREATE", "item_logs", q.item_id, JsonNone, new_value)
          [] q.op = "update" ->
                create_audit_log("UPDATE", "item_logs", q.item_id, q.old_value, new_value)
          [] q.op = "delete" ->
                create_audit_log("DELETE", "item_logs", q.item_id, q.old_value, JsonNone)

\* AfterAuditFailure with the mutation of the request taken back
AfterAuditFailure_unwinding(k) ==
    IF requests[k].op = "scan"
    THEN [i \in DOMAIN items \ {requests[k].item_id} |-> items[i]]
    ELSE [items EXCEPT ![requests[k].item_id] = requests[k].row]

\* the table as a failed commit of the audit entry leaves it: the commit of
\* the handler is behind it
AfterAuditFailure(k) == items

write_audit(k, ok) ==
    /\ k \in DOMAIN requests
    /\ requests[k].pc = "audit"
    /\ Len(audit) < MaxAudit
    /\ IF ok
       THEN /\ audit' = AuditEntry(k)
            /\ items' = items
            /\ requests' = [requests EXCEPT ![k].pc = "log"]
       ELSE /\ audit' = audit
            /\ items' = AfterAuditFailure(k)
            /\ requests' = [requests EXCEPT ![k] = Ended(@, 500, "audit")]
    /\ UNCHANGED <<call, backups, users, settings, session, now>>

write_log_line(k, ok) ==
    /\ k \in DOMAIN requests
    /\ requests[k].pc = "log"
    /\ requests' = [requests EXCEPT
           ![k] = Ended(@, 200, IF ok THEN "none" ELSE "log")]
    /\ UNCHANGED <<call, backups, users, items, audit, settings, session, now>>

RequestScanInputs == { One("barcode", JStr(<<"A", "1">>)) }

RequestUpdateInputs == { One("returned", JBool(TRUE)), One("completed", JBool(TRUE)) }

\* the three handlers with each statement able to fail, at one instant
NextRequests ==
    \/ \E d \in RequestScanInputs : begin_scan(d)
    \/ \E i \in ItemIds, d \in RequestUpdateInputs : begin_update(i, d)
    \/ \E i \in ItemIds : begin_delete(i)
    \/ \E k \in 1..MaxRequests, ok \in BOOLEAN : commit_mutation(k, ok)
    \/ \E k \in 1..MaxRequests, ok \in BOOLEAN : write_audit(k, ok)
    \/ \E k \in 1..MaxRequests, ok \in BOOLEAN : write_log_line(k, ok)

\* the administrator has logged in and scanned barcode A1 at time 0
InitRequests ==
    /\ users = <<set_password(User(AdminName, TRUE, 0), AdminPassword)>>
    /\ session = 1
    /\ now = 0
    /\ settings = NoSettings
    /\ \E item \in {ItemLog(<<"A", "1">>, None, 1, 1, DEFAULT_RETURN_DAYS * DayLen,
                              FALSE, 0, 0, None, 0)} :
           /\ items = [i \in {1} |-> item]
           /\ audit = <<AuditLog("CREATE", "item_logs", 1, 1, JsonNone,
                                 json_dumps(ItemToDict(1, item, users, 0)), 0)>>
    /\ call = NoCall
    /\ requests = NoRequests
    /\ backups = <<>>

SpecRequests == InitRequests /\ [][NextRequests]_vars

\* update_item requests on threads of their own while the clock advances
NextConcurrent ==
    \/ TickHistory
    \/ \E i \in ItemIds, d \in RequestUpdateInputs : begin_update(i, d)
    \/ \E k \in 1..MaxRequests, ok \in BOOLEAN : commit_mutation(k, ok)
    \/ \E k \in 1..MaxRequests, ok \in BOOLEAN : write_audit(k, ok)
    \/ \E k \in 1..MaxRequests, ok \in BOOLEAN : write_log_line(k, ok)

SpecConcurrent == InitRequests /\ [][NextConcurrent]_vars

\* ------------------------------------------------------------------------
\* app.py: check_and_run_daily_backup
\* ------------------------------------------------------------------------
\* The start-up code calls check_and_run_daily_backup once per start of the
\* process.  `backups' is the list of the calls of create_backup made, each
\* with the day of the call and what create_backup reported.  The checker
\* of the configured storage (storage_valid) and the result of the copy
\* (backup_ok) are the environment's.
MaxBackups == 4

\* datetime.utcnow().strftime('%Y-%m-%d'): the day of tick t, as text
Today(t) == PyStr(t \div DayLen)

\* AppSettings.set(key, value)
AppSettingsSet(st, key, value) == [st EXCEPT ![key] = value]

BackupResponse(ret, st, made) == [ret |-> ret, settings |-> st, backups |-> made]

\* check_and_run_daily_backup with the day recorded before the backup runs
check_and_run_daily_backup_response_eager(storage_valid, backup_ok) ==
    LET today == Today(now)
        made == Append(backups, [day |-> today, success |-> backup_ok])
    IN  IF AppSettingsGet(settings, "last_backup_date", <<>>) = today
        THEN BackupResponse(TRUE, settings, backups)
        ELSE IF ~storage_valid THEN BackupResponse(FALSE, settings, backups)
        ELSE BackupResponse(backup_ok,
                AppSettingsSet(settings, "last_backup_date", today), made)

check_and_run_daily_backup_response(storage_valid, backup_ok) ==
    LET today == Today(now)
        made == Append(backups, [day |-> today, success |-> backup_ok])
    IN  IF AppSettingsGet(settings, "last_backup_date", <<>>) = today
        THEN BackupResponse(TRUE, settings, backups)
        ELSE IF ~storage_valid THEN BackupResponse(FALSE, settings, backups)
        ELSE IF backup_ok
             THEN BackupResponse(TRUE,
                    AppSettingsSet(settings, "last_backup_date", today), made)
        ELSE BackupResponse(FALSE, settings, made)

check_and_run_daily_backup(storage_valid, backup_ok) ==
    /\ Len(backups) < MaxBackups
    /\ \E r \in {check_and_run_daily_backup_response(storage_valid, backup_ok)} :
           /\ settings' = r.settings
           /\ backups' = r.backups
    /\ UNCHANGED <<call, requests, users, items, audit, session, now>>

\* starts of the process over several days, with the return period set in
\* between
NextBackup ==
    \/ TickHistory
    \/ do_login(1, AdminPassword, TRUE)
    \/ \E d \in ReturnDaysInputs : settings_return_days(d)
    \/ \E storage_valid, backup_ok \in BOOLEAN :
           check_and_run_daily_backup(storage_valid, backup_ok)

SpecBackup == Init /\ [][NextBackup]_vars

\* ------------------------------------------------------------------------
\* Properties
\* ------------------------------------------------------------------------
\* the value a request submits under a key
Submits(d, key) == key \in DOMAIN d
SubmitsFlag(d, key, b) == key \in DOMAIN d /\ d[key] = JBool(b)
SubmitsPositive(d, key) == key \in DOMAIN d /\ d[key].t = "int" /\ d[key].i > 0
SubmitsZero(d, key) == key \in DOMAIN d /\ d[key] \in {JInt(0), JNull}

\* a committed update_item(i, d); the first two conjuncts follow from the
\* last two and are there to stop the evaluation early
Updated(i, d) ==
    /\ now' = now /\ session' = session /\ Len(audit') = Len(audit) + 1
    /\ i \in DOMAIN items /\ audit'[Len(audit')].record_id = i
    /\ audit'[Len(audit')].action = "UPDATE"
    /\ update_item(i, d)
    /\ update_item_response(i, d).status = 200

\* the snapshots of an audit entry
OldOf(e) == e.old_value[1]
NewOf(e) == e.new_value[1]
IsItemUpdate(e) == e.action = "UPDATE" /\ e.table_name = "item_logs"

\* C1: timestamp idempotence.  A committed update_item that submits an
\* active value (flag true, quantity > 0) for an aspect that is already
\* active leaves the paired timestamp as it was, whatever the clock says;
\* submitted for an inactive flag it sets the timestamp to the current time.
C1_TimestampIdempotence ==
    [][\A i \in ItemIds, d \in UpdateInputs :
        Updated(i, d) =>
            /\ (SubmitsFlag(d, "returned", TRUE) /\ items[i].returned)
                    => items'[i].returned_at = items[i].returned_at
            /\ (SubmitsFlag(d, "returned", TRUE) /\ ~items[i].returned)
                    => items'[i].returned_at = now
            /\ (SubmitsPositive(d, "block_quantity") /\ items[i].block_quantity > 0)
                    => items'[i].block_returned_at = items[i].block_returned_at
            /\ (SubmitsPositive(d, "slide_quantity") /\ items[i].slide_quantity > 0)
                    => items'[i].slide_returned_at = items[i].slide_returned_at
            /\ (SubmitsFlag(d, "completed", TRUE) /\ items[i].completed)
                    => items'[i].completed_at = items[i].completed_at
            /\ (SubmitsFlag(d, "completed", TRUE) /\ ~items[i].completed)
                    => items'[i].completed_at = now
      ]_vars

\* an update of a record that was returned earlier left it returned, with
\* the timestamp of the first return, and another update before it had set
\* that timestamp on a record that was not returned
C1_Witness ==
    \E j, k \in DOMAIN audit :
        /\ j < k
        /\ IsItemUpdate(audit[j]) /\ IsItemUpdate(audit[k])
        /\ audit[j].record_id = audit[k].record_id
        /\ ~OldOf(audit[j]).returned /\ OldOf(audit[j]).returned_at = NULL
        /\ NewOf(audit[j]).returned
        /\ NewOf(audit[j]).returned_at = audit[j].timestamp
        /\ OldOf(audit[k]).returned /\ NewOf(audit[k]).returned
        /\ audit[k].timestamp > audit[j].timestamp
        /\ NewOf(audit[k]).returned_at = audit[j].timestamp

\* C2: timestamp clearing.  A committed update_item that submits the
\* inactive value of an aspect (flag false, quantity 0) leaves the aspect
\* inactive and its timestamp null, whatever they were before.
C2_TimestampClearing ==
    [][\A i \in ItemIds, d \in UpdateInputs :
        Updated(i, d) =>
            /\ SubmitsFlag(d, "returned", FALSE)
                    => ~items'[i].returned /\ items'[i].returned_at = NULL
            /\ SubmitsZero(d, "block_quantity")
                    => /\ items'[i].block_quantity = 0
                       /\ items'[i].block_returned_at = NULL
            /\ SubmitsZero(d, "slide_quantity")
                    => /\ items'[i].slide_quantity = 0
                       /\ items'[i].slide_returned_at = NULL
            /\ SubmitsFlag(d, "completed", FALSE)
                    => ~items'[i].completed /\ items'[i].completed_at = NULL
      ]_vars

\* a record was marked returned by one update and unmarked by a later one
C2_Witness ==
    \E j, k \in DOMAIN audit :
        /\ j < k
        /\ IsItemUpdate(audit[j]) /\ IsItemUpdate(audit[k])
        /\ audit[j].record_id = audit[k].record_id
        /\ ~OldOf(audit[j]).returned /\ NewOf(audit[j]).returned
        /\ OldOf(audit[k]).returned /\ OldOf(audit[k]).returned_at # NULL
        /\ ~NewOf(audit[k]).returned /\ NewOf(audit[k]).returned_at = NULL

\* C3: flag/timestamp pairing.  For every stored record each timestamp is
\* set exactly when its flag or quantity is in the returned state.
C3_FlagTimestampPairing ==
    \A id \in DOMAIN items :
        /\ (items[id].returned_at # NULL) <=> items[id].returned
        /\ (items[id].block_returned_at # NULL) <=> (items[id].block_quantity > 0)
        /\ (items[id].slide_returned_at # NULL) <=> (items[id].slide_quantity > 0)
        /\ (items[id].completed_at # NULL) <=> items[id].completed

\* C4: audit completeness.  Every step that changes the users or the item
\* records appends exactly one audit entry, for the table that changed, and
\* a step that changes neither appends none.
C4_AuditCompleteness ==
    [][/\ (users' # users \/ items' # items) =>
            /\ Len(audit') = Len(audit) + 1
            /\ SubSeq(audit', 1, Len(audit)) = audit
            /\ audit'[Len(audit')].table_name =
                    IF users' # users THEN "users" ELSE "item_logs"
       /\ (users' = users /\ items' = items) => audit' = audit
      ]_vars

\* search terms of the history query
SearchInputs == { <<>>, <<"a">>, <<"y">>, <<"D", "E", "M">>, <<" ", "1">> }

\* C5: soft-delete exclusion.  Once delete_item(i) has committed (the audit
\* log holds its DELETE entry), get_item(i) returns the record with
\* deleted_at set and the rows history() selects, for any filter and search
\* term and at any time, do not include i (sorting and pagination only
\* arrange the selected rows).
C5_SoftDeleteExclusion ==
    \A k \in DOMAIN audit :
        (audit[k].action = "DELETE" /\ audit[k].table_name = "item_logs") =>
            LET i == audit[k].record_id
                got == get_item(session, items, i, users, now)
            IN  /\ got.status = 200
                /\ got.item[1].deleted_at # NULL
                /\ \A f \in Filters \cup {"other"}, q \in SearchInputs :
                        i \notin HistoryQuery(items, f, q, now)

\* C6: soft-deleted records are frozen.  A record whose deleted_at is set
\* stays stored, with every field as it is.
C6_DeletedFrozen ==
    [][\A id \in DOMAIN items :
            items[id].deleted_at # NULL =>
                id \in DOMAIN items' /\ items'[id] = items[id]
      ]_vars

\* C7: quantity floor.  Every stored record has quantity >= 1; a scan with
\* quantity below 1 is refused and stores nothing; an update_item that
\* submits a quantity below 1 is refused.
C7_QuantityFloor ==
    /\ \A id \in DOMAIN items : items[id].quantity >= 1
    /\ \A d \in ScanInputs :
            (Submits(d, "quantity") /\ d["quantity"].t = "int" /\ d["quantity"].i < 1)
                => /\ scan_response(d).status # 200
                   /\ scan_response(d).items = items
    /\ \A i \in DOMAIN items, d \in UpdateInputs :
            (Submits(d, "quantity") /\ d["quantity"].t = "int" /\ d["quantity"].i < 1)
                => update_item_response(i, d).status # 200

\* a submitted string that is absent, null or empty once trimmed and
\* stripped of the characters of class
EmptyAfter(d, key, class) ==
    LET v == Get(d, key, JNull) IN
    v.t = "null" \/ (v.t = "str" /\ ReSub(class, Strip(v.s)) = <<>>)

Unidentified(d) ==
    /\ EmptyAfter(d, "barcode", ControlChars)
    /\ EmptyAfter(d, "notes", ControlChars \ NotesKept)

\* every field of a scan request passes its validator, with quantity >= 1
FieldsValid(d) ==
    /\ ~validate_barcode(Get(d, "barcode", JNull)).err
    /\ ~validate_patient_id(Get(d, "patient_id", JNull)).err
    /\ ~validate_notes(Get(d, "notes", JNull)).err
    /\ ~validate_quantity(Get(d, "quantity", JInt(1)), 1).err
    /\ validate_quantity(Get(d, "quantity", JInt(1)), 1).val >= 1
    /\ ~validate_quantity(Get(d, "block_quantity", JInt(0)), 0).err
    /\ ~validate_quantity(Get(d, "slide_quantity", JInt(0)), 0).err

IsItemCreate(e) == e.action = "CREATE" /\ e.table_name = "item_logs"

\* C8: create requires identification.  For a logged-in user, a scan whose
\* barcode and notes are both null or empty after normalization is refused
\* with 400 and stores neither a record nor an audit entry; a scan with one
\* of them non-empty and valid fields stores one record and one audit entry;
\* and every record had a non-empty barcode or notes when it was created.
C8_CreateRequiresIdentification ==
    /\ session # 0 =>
        \A d \in ScanInputs :
            LET r == scan_response(d) IN
            /\ Unidentified(d) =>
                    r.status = 400 /\ r.items = items /\ r.audit = audit
            /\ (~Unidentified(d) /\ FieldsValid(d)) =>
                    /\ r.status = 200
                    /\ DOMAIN r.items = DOMAIN items \cup {NextId(DOMAIN items)}
                    /\ Len(r.audit) = Len(audit) + 1
    /\ \A k \in DOMAIN audit :
            IsItemCreate(audit[k]) =>
                Truthy(NewOf(audit[k]).barcode) \/ Truthy(NewOf(audit[k]).notes)

\* a record was created on its notes alone, its barcode being empty once the
\* control characters are stripped, and another on its barcode alone
C8_Witness ==
    /\ session # 0
    /\ \E k \in DOMAIN audit :
            /\ IsItemCreate(audit[k])
            /\ NewOf(audit[k]).barcode = <<>>
            /\ Truthy(NewOf(audit[k]).notes)
    /\ \E k \in DOMAIN audit :
            /\ IsItemCreate(audit[k])
            /\ Truthy(NewOf(audit[k]).barcode)
            /\ NewOf(audit[k]).notes = None

ActiveAdmins == { u \in DOMAIN users : users[u].is_admin /\ users[u].is_active }

\* C9: active-admin invariant.  At least one user is an active administrator.
C9_ActiveAdmin == ActiveAdmins # {}

\* C10: last-admin protection on delete.  For a logged-in user, a delete
\* request for the only active administrator is refused with 400 or 403 and
\* leaves that user active; a delete request of an active administrator for
\* another active administrator is answered 200 and deactivates the target.
C10_LastAdminProtection ==
    session # 0 =>
        \A t \in DOMAIN users :
            LET r == delete_user_response(t) IN
            /\ ActiveAdmins = {t} =>
                    r.status \in {400, 403} /\ r.users[t].is_active
            /\ (session \in ActiveAdmins /\ t \in ActiveAdmins /\ t # session) =>
                    r.status = 200 /\ ~r.users[t].is_active

\* the columns of item_logs, and the timestamp paired with a submitted key
Columns ==
    {"barcode", "patient_id", "quantity", "scanned_by_id", "scanned_at",
     "expected_return_date", "preliminary_report", "preliminary_report_at",
     "returned", "returned_at", "block_quantity", "block_returned_at",
     "slide_quantity", "slide_returned_at", "completed", "completed_at",
     "notes", "deleted_at"}

PairedTimestamps(d) ==
    (IF "returned" \in DOMAIN d THEN {"returned_at"} ELSE {})
    \cup (IF "block_quantity" \in DOMAIN d THEN {"block_returned_at"} ELSE {})
    \cup (IF "slide_quantity" \in DOMAIN d THEN {"slide_returned_at"} ELSE {})
    \cup (IF "completed" \in DOMAIN d THEN {"completed_at"} ELSE {})

\* the entry a committed update_item(i, d) appends: an UPDATE of record i
\* whose snapshots are the record serialized before and after the step
SnapshotsTaken(i) ==
    /\ Len(audit') = Len(audit) + 1
    /\ SubSeq(audit', 1, Len(audit)) = audit
    /\ IsItemUpdate(audit'[Len(audit')])
    /\ audit'[Len(audit')].record_id = i
    /\ OldOf(audit'[Len(audit')]) = ItemToDict(i, items[i], users, now)
    /\ NewOf(audit'[Len(audit')]) = ItemToDict(i, items'[i], users', now')

\* C11 as stated: audit snapshot round-trip.  A committed update_item
\* appends an UPDATE entry whose old and new values are the record serialized
\* before and after, and every field of the snapshots that the input does
\* not name is the same in both.
C11_AuditSnapshotAsStated ==
    [][\A i \in ItemIds, d \in FieldUpdateInputs :
        Updated(i, d) =>
            /\ SnapshotsTaken(i)
            /\ \A k \in DOMAIN OldOf(audit'[Len(audit')]) \ DOMAIN d :
                    OldOf(audit'[Len(audit')])[k] = NewOf(audit'[Len(audit')])[k]
      ]_vars

\* C11 (amended): audit snapshot round-trip.  A committed update_item
\* appends an UPDATE entry whose old and new values are the record serialized
\* before and after; id, scanned_by_name and every column that the input
\* does not name, other than the timestamp paired with a named aspect, are
\* the same in both snapshots.
C11_AuditSnapshot ==
    [][\A i \in ItemIds, d \in FieldUpdateInputs :
        Updated(i, d) =>
            /\ SnapshotsTaken(i)
            /\ \A k \in ({"id", "scanned_by_name"} \cup Columns)
                            \ (DOMAIN d \cup PairedTimestamps(d)) :
                    OldOf(audit'[Len(audit')])[k] = NewOf(audit'[Len(audit')])[k]
      ]_vars

\* an update of the notes alone was logged with the old notes in the old
\* snapshot and the new notes in the new one
C11_Witness ==
    \E k \in DOMAIN audit :
        /\ IsItemUpdate(audit[k])
        /\ OldOf(audit[k]).notes # <<"n">>
        /\ NewOf(audit[k]).notes = <<"n">>
        /\ \A f \in DOMAIN OldOf(audit[k]) \ {"notes"} :
                OldOf(audit[k])[f] = NewOf(audit[k])[f]

\* C12: the audit log is append-only.  Every step leaves each entry of the
\* audit log in place with all its fields, snapshots included; entries are
\* only added at the end.
C12_AuditAppendOnly ==
    [][/\ Len(audit') >= Len(audit)
       /\ \A k \in DOMAIN audit : audit'[k] = audit[k]
      ]_vars

\* a record was created, soft-deleted and then purged, and the log still
\* holds both entries with the snapshot of the record
C12_Witness ==
    \E j, k \in DOMAIN audit :
        /\ j < k
        /\ IsItemCreate(audit[j])
        /\ audit[k].action = "DELETE" /\ audit[k].table_name = "item_logs"
        /\ audit[k].record_id = audit[j].record_id
        /\ audit[j].record_id \notin DOMAIN items
        /\ OldOf(audit[k]).barcode = NewOf(audit[j]).barcode

\* the instants at which is_overdue is evaluated: up to one tick past the
\* latest due date of a record
Instants == 0 .. (MaxHistTime + DEFAULT_RETURN_DAYS * DayLen + 1)

\* C13: overdue derivation.  For every stored record and every instant t,
\* is_overdue is true exactly when the record is not returned, not deleted,
\* has an expected return date and t is after it; and a committed
\* update_item that submits returned = true for a record that is overdue
\* leaves it not overdue, in the stored record and in the response of
\* get_item, with the same expected return date.
C13_OverdueDerivation ==
    /\ [](\A id \in DOMAIN items, t \in Instants :
            is_overdue(items[id], t) <=>
                /\ ~items[id].returned
                /\ items[id].deleted_at = NULL
                /\ items[id].expected_return_date # NULL
                /\ t > items[id].expected_return_date)
    /\ [][\A i \in ItemIds, d \in FieldUpdateInputs :
            (SubmitsFlag(d, "returned", TRUE) /\ Updated(i, d)
                                             /\ is_overdue(items[i], now)) =>
                /\ ~is_overdue(items'[i], now')
                /\ ~get_item(session', items', i, users', now').item[1].is_overdue
                /\ items'[i].expected_return_date = items[i].expected_return_date
         ]_vars

\* an overdue record was marked returned: the snapshot before the update
\* shows it overdue, the one after does not, with the same due date
C13_Witness ==
    \E k \in DOMAIN audit :
        /\ IsItemUpdate(audit[k])
        /\ OldOf(audit[k]).is_overdue /\ ~OldOf(audit[k]).returned
        /\ audit[k].timestamp > OldOf(audit[k]).expected_return_date
        /\ NewOf(audit[k]).returned /\ ~NewOf(audit[k]).is_overdue
        /\ NewOf(audit[k]).expected_return_date = OldOf(audit[k]).expected_return_date

\* search terms, page numbers and page sizes of the history requests
HistorySearchInputs == { <<>>, <<"1">>, <<"a">>, <<"x">>, <<"_">> }
PageSizes == {1, 2, 50}
Pages == 1 .. (MaxItems + 1)

\* the ids on a page, in the order of the page
PageIds(r) == [k \in 1..Len(r.items) |-> r.items[k].id]

\* the ids history() returns over all the pages of one query
AllPages(filter_type, search, sort, per_page) ==
    UNION { { PageIds(r)[k] : k \in 1..Len(r.items) } :
            r \in UNION { history(session, items, users, filter_type, search,
                                  sort, p, per_page, now) : p \in Pages } }

\* str holds term as a substring, letters compared without regard to case
HasSubstring(str, term) ==
    /\ str # None
    /\ \E k \in 0..Len(str) :
          /\ k + Len(term) <= Len(str)
          /\ FoldStr(SubSeq(str, k + 1, k + Len(term))) = FoldStr(term)

\* the predicate the filter table gives for a filter value
FilterPredicate(filter_type, item, t) ==
    LET today == t - (t % DayLen)
        incomplete == ~item.completed
        scanned_today == item.scanned_at >= today
        scanned_yesterday ==
            item.scanned_at >= today - DayLen /\ item.scanned_at < today
    IN  CASE filter_type = "all" -> TRUE
          [] filter_type \in {"unreturned", "incomplete"} -> incomplete
          [] filter_type = "overdue" ->
                /\ incomplete
                /\ item.expected_return_date # NULL
                /\ item.expected_return_date < t
          [] filter_type = "today" -> scanned_today
          [] filter_type = "yesterday" -> scanned_yesterday
          [] filter_type = "today_incomplete" -> scanned_today /\ incomplete
          [] filter_type = "yesterday_incomplete" ->
                scanned_yesterday /\ incomplete

\* C14: history filter semantics.  For a logged-in user, every filter value
\* and every search term, the records history() returns over all pages are
\* exactly the records that are not deleted, satisfy the predicate of the
\* filter and, when the term is not empty, hold the term as a substring of
\* barcode, patient_id or notes.
C14_HistoryFilter ==
    session # 0 =>
        \A f \in Filters, q \in HistorySearchInputs, pp \in PageSizes :
            AllPages(f, q, "newest", pp) =
                { id \in DOMAIN items :
                    /\ items[id].deleted_at = NULL
                    /\ FilterPredicate(f, items[id], now)
                    /\ q # <<>> =>
                          \/ HasSubstring(items[id].barcode, q)
                          \/ HasSubstring(items[id].patient_id, q)
                          \/ HasSubstring(items[id].notes, q) }

\* sort values of the history requests; "other" is not a recognised one
Sorts == {"newest", "oldest", "overdue", "barcode", "other"}

\* row x stands before row y in a page sorted by sort, as the sort table
\* orders them
InSortOrder(sort, x, y) ==
    CASE sort = "oldest" -> x.scanned_at <= y.scanned_at
      [] sort = "overdue" ->
            IF x.expected_return_date = NULL THEN y.expected_return_date = NULL
            ELSE \/ y.expected_return_date = NULL
                 \/ x.expected_return_date <= y.expected_return_date
      [] sort = "barcode" ->
            /\ (x.barcode # None /\ y.barcode # None) =>
                    ~StrLess(y.barcode, x.barcode)
            /\ x.barcode = y.barcode => x.scanned_at >= y.scanned_at
      [] OTHER -> x.scanned_at >= y.scanned_at

CeilDiv(n, d) == CHOOSE c \in 0..n : c * d >= n /\ (c = 0 \/ (c - 1) * d < n)

\* filter and sort of the paged history requests
PagedQueries == { <<"all", "newest">>, <<"incomplete", "barcode">> }

\* C16: pagination.  At all times, for a logged-in user, page p >= 1 and
\* per_page >= 1, every response of history() reports as total the number
\* of matching records and as pages ceil(total / per_page); its rows are the
\* rows at positions (p-1)*per_page+1 .. min(p*per_page, total) of the
\* sorted result; has_next is p < pages and has_prev is p > 1; and a page
\* beyond the last one is answered 200 with no rows and the same total.
C16_Pagination ==
    [](session # 0 =>
        \A q \in PagedQueries, pp \in PageSizes :
            \A p \in 1..(CeilDiv(MaxItems, pp) + 1) :
                LET matching == HistoryQuery(items, q[1], <<>>, now)
                    total == Cardinality(matching)
                    first == (p - 1) * pp + 1
                    last == IF p * pp < total THEN p * pp ELSE total
                IN  \A r \in history(session, items, users, q[1], <<>>, q[2],
                                      p, pp, now) :
                        /\ r.status = 200
                        /\ r.total = total
                        /\ r.pages = CeilDiv(total, pp)
                        /\ r.has_next = (p < r.pages)
                        /\ r.has_prev = (p > 1)
                        /\ Len(r.items) = (IF last >= first THEN last - first + 1 ELSE 0)
                        /\ \E o \in Orderings(matching, q[2], items) :
                                \A k \in 1..Len(r.items) :
                                    PageIds(r)[k] = o[first + k - 1]
                        /\ p > r.pages => r.items = <<>>)

\* two records on pages of one row: page 1 has the newer and a next page,
\* page 2 the older and a previous page, page 3 nothing and the same total
C16_Witness ==
    /\ session # 0
    /\ DOMAIN items = {1, 2}
    /\ items[1].scanned_at < items[2].scanned_at
    /\ \A r \in history(session, items, users, "all", <<>>, "newest", 1, 1, now) :
            PageIds(r) = <<2>> /\ r.has_next /\ ~r.has_prev /\ r.pages = 2
    /\ \A r \in history(session, items, users, "all", <<>>, "newest", 2, 1, now) :
            PageIds(r) = <<1>> /\ ~r.has_next /\ r.has_prev
    /\ \A r \in history(session, items, users, "all", <<>>, "newest", 3, 1, now) :
            r.items = <<>> /\ r.total = 2 /\ r.status = 200

\* the four return aspects: the key update_item reads and its timestamp
Aspects ==
    { <<"returned", "returned_at">>, <<"block_quantity", "block_returned_at">>,
      <<"slide_quantity", "slide_returned_at">>, <<"completed", "completed_at">> }

\* C17: partial-update frame.  A committed update_item(i, d) keeps the set
\* of records, changes no column of record i other than the keys of d and
\* the timestamp paired with an aspect key of d, never changes
\* scanned_by_id, scanned_at or deleted_at even when d names them, and
\* leaves every aspect whose key d does not hold as it was, value and
\* timestamp.
C17_PartialUpdateFrame ==
    [][\A i \in ItemIds, d \in FieldUpdateInputs :
        Updated(i, d) =>
            /\ DOMAIN items' = DOMAIN items
            /\ \A k \in Columns \ (DOMAIN d \cup PairedTimestamps(d)) :
                    items'[i][k] = items[i][k]
            /\ \A k \in {"scanned_by_id", "scanned_at", "deleted_at"} :
                    items'[i][k] = items[i][k]
            /\ \A a \in Aspects :
                    a[1] \notin DOMAIN d =>
                        /\ items'[i][a[1]] = items[i][a[1]]
                        /\ items'[i][a[2]] = items[i][a[2]]
      ]_vars

\* a record that is not returned was completed: the update set completed
\* and completed_at and left returned and returned_at as they were
C17_Witness ==
    \E k \in DOMAIN audit :
        /\ IsItemUpdate(audit[k])
        /\ ~OldOf(audit[k]).completed /\ NewOf(audit[k]).completed
        /\ NewOf(audit[k]).completed_at # OldOf(audit[k]).completed_at
        /\ ~NewOf(audit[k]).returned
        /\ NewOf(audit[k]).returned_at = OldOf(audit[k]).returned_at
        /\ audit[k].record_id \in DOMAIN items
        /\ items[audit[k].record_id].completed
        /\ ~items[audit[k].record_id].returned

\* a committed delete_item(i)
Deleted(i) ==
    /\ now' = now /\ session' = session /\ Len(audit') = Len(audit) + 1
    /\ i \in DOMAIN items /\ audit'[Len(audit')].action = "DELETE"
    /\ delete_item(i)
    /\ delete_item_response(i).status = 200

\* C18: soft-delete frame.  A committed delete_item(i) sets deleted_at of
\* record i to the current time and leaves every other column of the record
\* and every other record unchanged; delete_item of an id that no record
\* has is answered 404 with the records and the audit log as they were.
C18_SoftDeleteFrame ==
    /\ [](\A i \in ItemIds :
            (session # 0 /\ i \notin DOMAIN items) =>
                delete_item_response(i) = ItemResponse(404, items, audit))
    /\ [][\A i \in ItemIds :
            Deleted(i) =>
                /\ items'[i].deleted_at = now
                /\ \A k \in Columns \ {"deleted_at"} : items'[i][k] = items[i][k]
                /\ DOMAIN items' = DOMAIN items
                /\ \A j \in DOMAIN items \ {i} : items'[j] = items[j]
         ]_vars

\* one of two records was soft-deleted after the clock had advanced, and
\* the other one is still live
C18_Witness ==
    \E k \in DOMAIN audit :
        /\ audit[k].action = "DELETE" /\ audit[k].table_name = "item_logs"
        /\ audit[k].record_id \in DOMAIN items
        /\ items[audit[k].record_id].deleted_at = audit[k].timestamp
        /\ audit[k].timestamp > items[audit[k].record_id].scanned_at
        /\ \E j \in DOMAIN items : items[j].deleted_at = NULL

\* C19: CSV export matches the history query.  For a logged-in user, every
\* filter value and every search term, every response of export_csv() has
\* exactly one row for each record that history() with the same filter and
\* search returns over all its pages, and no other row, and its rows stand
\* in scanned_at-descending order.
C19_ExportMatchesHistory ==
    session # 0 =>
        \A f \in Filters, q \in HistorySearchInputs :
            \A r \in export_csv(session, items, users, f, q, now) :
                /\ r.status = 200
                /\ { r.rows[k].id : k \in 1..Len(r.rows) } =
                        { CsvInt(id) : id \in AllPages(f, q, "newest", 50) }
                /\ Len(r.rows) = Cardinality(AllPages(f, q, "newest", 50))
                /\ \A j, k \in 1..Len(r.rows) :
                        j < k => ParseNat(r.rows[j].scanned_at)
                                    >= ParseNat(r.rows[k].scanned_at)

\* the number of days the return-days setting stands for
ReturnDays ==
    IF settings.return_days = None THEN DEFAULT_RETURN_DAYS
    ELSE ParseNat(settings.return_days)

\* C20: expected return date at creation.  The return-days setting always
\* stands for a number of days within 1..365, 14 while it has not been
\* written; every record a step creates has scanned_at at the current time
\* and expected_return_date that many days later; and a step that changes
\* the setting leaves every record, its expected_return_date included, as
\* it was.
C20_ExpectedReturnDate ==
    /\ [](/\ ReturnDays \in 1..LIMITS.return_days_max
          /\ settings.return_days = None => ReturnDays = 14)
    /\ [][\A id \in DOMAIN items' \ DOMAIN items :
            /\ items'[id].scanned_at = now
            /\ items'[id].expected_return_date = now + ReturnDays * DayLen
         ]_vars
    /\ [][settings' # settings =>
            /\ DOMAIN items' = DOMAIN items
            /\ \A id \in DOMAIN items :
                    items'[id].expected_return_date = items[id].expected_return_date
         ]_vars

\* a record scanned under the default of 14 days and one scanned after the
\* setting was changed, each due its own number of days after its scan
C20_Witness ==
    /\ ReturnDays # DEFAULT_RETURN_DAYS
    /\ \E i, j \in DOMAIN items :
        /\ items[i].scanned_at < items[j].scanned_at
        /\ items[i].expected_return_date =
                items[i].scanned_at + DEFAULT_RETURN_DAYS * DayLen
        /\ items[j].expected_return_date =
                items[j].scanned_at + ReturnDays * DayLen

\* str without the white space at its two ends
Trimmed(str) ==
    LET black == { k \in 1..Len(str) : str[k] \notin WhiteSpace } IN
    IF black = {} THEN <<>>
    ELSE SubSeq(str, CHOOSE k \in black : \A j \in black : k <= j,
                     CHOOSE k \in black : \A j \in black : k >= j)

\* C21: validate_string.  A call on null, or on a string that is empty
\* after trimming, raises when required and returns None otherwise; a call
\* on a value that is not a string raises; a call on any other string
\* returns the whole trimmed string when it has at most max_length
\* characters, and raises an error that reports max_length and the length
\* of the trimmed string when it has more; no call returns a shortened
\* value.
C21_ValidateString ==
    (call.fn = "validate_string" /\ call.done) =>
        LET value == call.args[1]
            max_length == call.args[2]
            required == call.args[3]
            ret == call.ret
        IN  IF value.t = "null" \/ (value.t = "str" /\ Trimmed(value.s) = <<>>)
            THEN IF required THEN ret.err ELSE ~ret.err /\ ret.val = None
            ELSE IF value.t # "str" THEN ret.err
            ELSE IF Len(Trimmed(value.s)) <= max_length
                 THEN ~ret.err /\ ret.val = Trimmed(value.s)
                 ELSE /\ ret.err
                      /\ ret.message =
                            <<"max_length", max_length, Len(Trimmed(value.s))>>

\* the call on 501 letters with the limit 500 has raised, reporting 500 and
\* 501
C21_Witness ==
    /\ call.fn = "validate_string" /\ call.done
    /\ call.args = <<JStr(Xs(501)), 500, FALSE>>
    /\ call.ret.err
    /\ call.ret.message = <<"max_length", 500, 501>>

\* ten times the number a JSON value stands for, as int() reads a string
Tenths(value) ==
    IF value.t = "float" THEN value.i ELSE 10 * PyInt(value).val

\* what validate_integer has to return for value under the bounds min_val
\* and max_val (NULL: no upper bound): the default for null, an error for a
\* value that is not a number, an error naming the bound for a number
\* outside the bounds, the integer otherwise
IntegerAsStated(ret, value, min_val, max_val, default) ==
    IF value.t = "null" THEN ~ret.err /\ ret.val = default
    ELSE IF PyInt(value).err THEN ret.err
    ELSE IF Tenths(value) < 10 * min_val
         THEN ret.err /\ ret.message = <<"min_val", min_val>>
    ELSE IF max_val # NULL /\ Tenths(value) > 10 * max_val
         THEN ret.err /\ ret.message = <<"max_val", max_val>>
    ELSE ~ret.err /\ ret.val = PyInt(value).val

\* C22: validate_integer and its wrappers.  Every call of validate_integer
\* returns the default for null, raises for a value that is not a number,
\* raises naming min_val or max_val for a number below or above them, and
\* returns the integer otherwise; validate_quantity does so with the bounds
\* 0 and 9999 and validate_return_days with the bounds 1 and 365 and the
\* default 14, so that they accept exactly the numbers 0..9999 and 1..365.
C22_ValidateInteger ==
    call.done =>
        /\ call.fn = "validate_integer" =>
                IntegerAsStated(call.ret, call.args[1], call.args[2],
                                call.args[3], call.args[4])
        /\ call.fn = "validate_quantity" =>
                /\ IntegerAsStated(call.ret, call.args[1], 0, 9999, call.args[2])
                /\ call.args[1].t \in {"int", "float"} =>
                        (~call.ret.err <=>
                            (0 <= Tenths(call.args[1]) /\ Tenths(call.args[1]) <= 99990))
        /\ call.fn = "validate_return_days" =>
                /\ IntegerAsStated(call.ret, call.args[1], 1, 365, 14)
                /\ call.args[1].t \in {"int", "float"} =>
                        (~call.ret.err <=>
                            (10 <= Tenths(call.args[1]) /\ Tenths(call.args[1]) <= 3650))

\* the newline and line-feed family among the control characters
LineBreaks == {"\n", "\r"}

\* C23: control-character stripping.  The value validate_barcode or
\* validate_patient_id returns holds no ASCII control character; the value
\* validate_notes returns is the trimmed text without its control
\* characters other than the line breaks, so it holds no control character
\* that is not a line break and every line break of the trimmed text in its
\* place.
C23_ControlCharacters ==
    (/\ call.fn \in {"validate_barcode", "validate_patient_id", "validate_notes"}
     /\ call.done /\ ~call.ret.err /\ call.ret.val # None) =>
        /\ call.fn \in {"validate_barcode", "validate_patient_id"} =>
                \A k \in 1..Len(call.ret.val) : call.ret.val[k] \notin ControlChars
        /\ call.fn = "validate_notes" =>
                /\ \A k \in 1..Len(call.ret.val) :
                        call.ret.val[k] \in ControlChars =>
                            call.ret.val[k] \in LineBreaks
                /\ call.ret.val =
                        SelectSeq(Trimmed(call.args[1].s),
                                  LAMBDA c : c \notin ControlChars \ LineBreaks)

\* the statuses of a structured result: success, validation or duplicate
\* name (400), authorization (401, 403), not found (404)
Structured == {200, 400, 401, 403, 404}

\* requests with a value that cannot be parsed
MalformedUpdates == { One("expected_return_date", JStr(<<"x">>)) }
QueryStrings == { EmptyMap, One("page", <<"2">>), One("page", <<"x">>) }

\* C24: no unhandled fault.  In every state, every request to scan,
\* update_item, delete_item, get_item, history, audit_logs,
\* settings_return_days, create_user, update_user and delete_user is
\* answered with a structured result: none ends in an uncaught exception
\* (status 500), update_item with a malformed expected_return_date, history
\* with a page that is not a number and delete_user included.
C24_NoUnhandledFault ==
    /\ \A d \in ScanInputs \cup FieldScanInputs :
            scan_response(d).status \in Structured
    /\ \A i \in ItemIds, d \in UpdateInputs \cup FieldUpdateInputs \cup MalformedUpdates :
            update_item_response(i, d).status \in Structured
    /\ \A i \in ItemIds :
            /\ delete_item_response(i).status \in Structured
            /\ get_item(session, items, i, users, now).status \in Structured
    /\ \A q \in QueryStrings :
            /\ \A r \in history_request(session, items, users, q, now) :
                    r.status \in Structured
            /\ audit_logs(session, audit, q).status \in Structured
    /\ \A d \in ReturnDaysInputs :
            settings_return_days_response(d).status \in Structured
    /\ \A d \in CreateUserInputs : create_user_response(d).status \in Structured
    /\ \A u \in UserIds :
            /\ \A d \in UpdateUserInputs :
                    update_user_response(u, d).status \in Structured
            /\ delete_user_response(u).status \in Structured
\* C25: an update refused with a validation error (status 400) changes
\* nothing: the stored record keeps the value it had before the request in
\* every field, including the fields named before the refused one in the
\* same request, and no audit entry is written, so the next request reads
\* the record as it was
C25_UpdateAllOrNothing ==
    \A i \in DOMAIN items : \A d \in FieldUpdateInputs :
        \A r \in {update_item_response(i, d)} :
            r.status = 400 => r.items = items /\ r.audit = audit

\* a logged-in user's request assigns a valid field to the record's object
\* and is then refused for a later field
C25_Witness ==
    /\ session # 0
    /\ \E i \in DOMAIN items : \E d \in FieldUpdateInputs :
           /\ ApplyUpdate(items[i], sanitize_input(d), now).status = 400
           /\ ApplyUpdate(items[i], sanitize_input(d), now).item # items[i]
           /\ update_item_response(i, d).items = items

\* the passwords a login form submits
SuppliedPasswords == {<<>>, <<"p">>, AdminPassword}

\* the active users without a password hash
Passwordless == { u \in DOMAIN users : users[u].is_active /\ ~has_password(users[u]) }

CommittedRequests == { k \in DOMAIN requests : requests[k].committed }

\* C27: in scan, update_item and delete_item the mutation is committed
\* before the audit entry is written: an audit entry is appended only by a
\* request whose mutation is committed, for the record of that mutation, and
\* a request whose commit failed appends none; when the write of the audit
\* entry fails the committed mutation stays in place, and when the line of
\* the operational log cannot be written the audit entry and the mutation
\* both stay; a committed scan leaves its record in the table and a
\* committed delete leaves its record marked deleted
C27_MutationThenAudit ==
    /\ [](\A k \in CommittedRequests :
            /\ requests[k].item_id \in DOMAIN items
            /\ requests[k].op = "delete" =>
                   items[requests[k].item_id].deleted_at # NULL)
    /\ [][ /\ audit' # audit =>
                \E k \in CommittedRequests :
                    /\ requests[k].pc = "audit" /\ requests'[k].pc = "log"
                    /\ items' = items
                    /\ Len(audit') = Len(audit) + 1
                    /\ SubSeq(audit', 1, Len(audit)) = audit
                    /\ audit'[Len(audit')].record_id = requests[k].item_id
           /\ \A k \in DOMAIN requests :
                requests'[k].pc = "done" /\ requests[k].pc # "done" =>
                    /\ audit' = audit
                    /\ items' = items
                    /\ requests'[k].status = 500 <=>
                           requests'[k].failed \in {"commit", "audit"}
                    /\ requests'[k].failed = "commit" <=> k \notin CommittedRequests
         ]_vars

\* a scan whose audit entry could not be written has left its record and
\* no CREATE entry for it, and a delete whose log line could not be written
\* has left the record marked deleted and its DELETE entry
C27_Witness ==
    \E k, j \in DOMAIN requests :
        /\ requests[k].op = "scan" /\ requests[k].failed = "audit"
        /\ requests[k].status = 500
        /\ requests[k].item_id \in DOMAIN items
        /\ \A n \in 1..Len(audit) : audit[n].record_id # requests[k].item_id
        /\ requests[j].op = "delete" /\ requests[j].failed = "log"
        /\ requests[j].status = 200
        /\ items[requests[j].item_id].deleted_at # NULL
        /\ \E n \in 1..Len(audit) :
               /\ audit[n].action = "DELETE"
               /\ audit[n].record_id = requests[j].item_id

\* C28: at every instant a record that is not deleted is among the rows of
\* the history view with filter "overdue" exactly when the is_overdue value
\* of its serialization is true
C28_OverdueFilterAgrees ==
    session # 0 =>
        \A id \in DOMAIN items :
            items[id].deleted_at = NULL =>
                (id \in HistoryQuery(items, "overdue", <<>>, now)
                    <=> ItemToDict(id, items[id], users, now).is_overdue)

\* request k commits its update in this step
CommitsUpdate(k) ==
    /\ requests[k].op = "update"
    /\ requests[k].pc = "commit"
    /\ requests'[k].pc = "audit"

\* C29: when two update_item requests that set returned (or completed) on
\* the same record have both read it with the flag false, the commit of the
\* later one leaves returned_at (completed_at) at the time the first commit
\* wrote
C29_FirstCommitterKeepsTimestamp ==
    [][\A k \in DOMAIN requests :
          CommitsUpdate(k) =>
              \A id \in {requests[k].item_id} :
                 /\ ~requests[k].row.returned /\ requests[k].obj.returned
                        /\ items[id].returned
                    => items'[id].returned_at = items[id].returned_at
                 /\ ~requests[k].row.completed /\ requests[k].obj.completed
                        /\ items[id].completed
                    => items'[id].completed_at = items[id].completed_at
      ]_vars

\* C30: check_and_run_daily_backup calls create_backup exactly when the
\* stored last_backup_date differs from today's UTC date and the configured
\* storage is valid; it sets last_backup_date to today when the backup
\* reports success and otherwise leaves the settings as they are; so no day
\* has a call of create_backup after a successful one, while a failed call
\* may be followed by another on the same day
C30_DailyBackup ==
    /\ \A storage_valid, backup_ok \in BOOLEAN :
         \A r \in {check_and_run_daily_backup_response(storage_valid, backup_ok)} :
            \A due \in {settings.last_backup_date # Today(now) /\ storage_valid} :
               /\ r.backups # backups <=> due
               /\ due => r.backups =
                      Append(backups, [day |-> Today(now), success |-> backup_ok])
               /\ IF due /\ backup_ok
                  THEN r.settings = [settings EXCEPT !.last_backup_date = Today(now)]
                  ELSE r.settings = settings
               /\ r.ret <=> (settings.last_backup_date = Today(now)
                                \/ (storage_valid /\ backup_ok))
    /\ \A i, j \in 1..Len(backups) :
         i < j /\ backups[i].day = backups[j].day => ~backups[i].success
    /\ \A i \in 1..Len(backups) :
         backups[i].success /\ backups[i].day = Today(now)
             => settings.last_backup_date = Today(now)

\* a backup failed and was made again with success on the same day, and a
\* further start of the process on that day makes none
C30_Witness ==
    /\ \E i, j \in 1..Len(backups) :
          /\ i < j
          /\ backups[i].day = Today(now) /\ ~backups[i].success
          /\ backups[j].day = Today(now) /\ backups[j].success
    /\ settings.last_backup_date = Today(now)
    /\ check_and_run_daily_backup_response(TRUE, TRUE).backups = backups
    /\ check_and_run_daily_backup_response(TRUE, TRUE).ret

====
